---- MODULE Spec2Model ----
(***************************************************************************)
(* Schema-migration engine of src/db/migrator.py.                          *)
(*                                                                         *)
(* One or two processes, each owning one connection to the same PostgreSQL *)
(* store, call run_database_migrations.  The store is modelled as the      *)
(* committed state plus, per connection, the uncommitted changes of its    *)
(* transaction (tx) and of its open savepoint (sp).  A connection sees the *)
(* committed state and its own changes (READ COMMITTED).                   *)
(*                                                                         *)
(* Specifications: Spec (one connection; faulty bodies, repairs, crashes), *)
(* SpecRace (two connections), SpecFaultyRace (two connections and faulty  *)
(* bodies), SpecStore (two connections; the statements on                  *)
(* schema_migrations may raise), SpecSeeded (one connection against stores *)
(* left by an earlier deployment or an interrupted attempt), SpecLive (one *)
(* connection whose run is scheduled fairly), SpecRows (one connection     *)
(* against stores whose users table has rows with referral codes).         *)
(*                                                                         *)
(* The bot that runs on the migrated store handles one update at a time:   *)
(* update is the update with what its collaborators answer, at the         *)
(* position in the handler and effects the calls made so far.  SpecTerms   *)
(* is TermsAcceptanceMiddleware.__call__ of                                *)
(* src/bot/middlewares/terms_acceptance_middleware.py, SpecStart is        *)
(* start_command_handler of src/bot/handlers/user/start.py, SpecChannel is *)
(* ensure_required_channel_subscription of the same file called on its     *)
(* own; user_row is the channel verification stored in the user's row.     *)
(***************************************************************************)
EXTENDS Integers, Sequences, FiniteSets, TLC

\* ------------------------------------------------------------------ bounds
MaxRuns == 2          \* calls of run_database_migrations per process
MaxFaulty == 2        \* descriptors whose upgrade body raises
RaceRuns == 2         \* calls per process when two processes race

\* --------------------------------------------------------------- processes
Procs == {"p1", "p2"}
NoProc == "none"

\* ---------------------------------------------------------------- registry
Migration(i, d, u) == [id |-> i, description |-> d, upgrade |-> u]

MIGRATIONS ==
    << Migration("0001_add_channel_subscription_fields",
                 "Add columns to track required channel subscription verification",
                 "_migration_0001_add_channel_subscription_fields"),
       Migration("0002_add_referral_code",
                 "Store short referral codes for users and backfill existing rows",
                 "_migration_0002_add_referral_code"),
       Migration("0003_normalize_referral_codes",
                 "Normalize referral codes to uppercase for consistent lookups",
                 "_migration_0003_normalize_referral_codes"),
       Migration("0004_add_terms_acceptance_fields",
                 "Add columns to track terms of service acceptance (terms_accepted, terms_accepted_at, terms_version)",
                 "_migration_0004_add_terms_acceptance_fields") >>

Positions == 1..Len(MIGRATIONS)
Ids == {MIGRATIONS[i].id : i \in Positions}
IdsBefore(k) == {MIGRATIONS[i].id : i \in 1..(k - 1)}
IdsFrom(k) == {MIGRATIONS[i].id : i \in k..Len(MIGRATIONS)}

\* -------------------------------------------------------------- statements
AddColumn(c) == [op |-> "ADD_COLUMN", col |-> c]
UpdateBackfill == [op |-> "UPDATE_BACKFILL", col |-> "referral_code"]
CreateUniqueIndex == [op |-> "CREATE_INDEX", col |-> "referral_code"]
UpdateUpper == [op |-> "UPDATE_UPPER", col |-> "referral_code"]

\* the statements list built by the "if <col> not in columns" chain
RECURSIVE MissingColumns(_, _)
MissingColumns(wanted, columns) ==
    IF wanted = << >> THEN << >>
    ELSE (IF Head(wanted) \in columns THEN << >> ELSE << AddColumn(Head(wanted)) >>)
         \o MissingColumns(Tail(wanted), columns)

_migration_0001_add_channel_subscription_fields(columns) ==
    MissingColumns(<< "channel_subscription_verified",
                      "channel_subscription_checked_at",
                      "channel_subscription_verified_for" >>, columns)

\* as _migration_0002_add_referral_code, but the unique index is not created
Migration0002WithoutIndex(columns) ==
    MissingColumns(<< "referral_code" >>, columns) \o << UpdateBackfill >>

_migration_0002_add_referral_code(columns) ==
    MissingColumns(<< "referral_code" >>, columns)
        \o << UpdateBackfill, CreateUniqueIndex >>

\* as _migration_0003_normalize_referral_codes, but without the return of
\* lines 101-102
Migration0003Unguarded(columns) == << UpdateUpper >>

_migration_0003_normalize_referral_codes(columns) ==
    IF "referral_code" \notin columns THEN << >> ELSE << UpdateUpper >>

\* as _migration_0004_add_terms_acceptance_fields, but without asking the
\* inspector: every column is added
Migration0004Unguarded(columns) ==
    << AddColumn("terms_accepted"), AddColumn("terms_accepted_at"),
       AddColumn("terms_version") >>

_migration_0004_add_terms_acceptance_fields(columns) ==
    MissingColumns(<< "terms_accepted", "terms_accepted_at", "terms_version" >>,
                   columns)

\* migration.upgrade(connection): the statements the body executes, given the
\* columns its inspector sees
Upgrade(m, columns) ==
    CASE m.upgrade = "_migration_0001_add_channel_subscription_fields" ->
            _migration_0001_add_channel_subscription_fields(columns)
      [] m.upgrade = "_migration_0002_add_referral_code" ->
            _migration_0002_add_referral_code(columns)
      [] m.upgrade = "_migration_0003_normalize_referral_codes" ->
            _migration_0003_normalize_referral_codes(columns)
      [] m.upgrade = "_migration_0004_add_terms_acceptance_fields" ->
            _migration_0004_add_terms_acceptance_fields(columns)

Columns0001 == {"channel_subscription_verified", "channel_subscription_checked_at",
                "channel_subscription_verified_for"}
Columns0004 == {"terms_accepted", "terms_accepted_at", "terms_version"}
AllColumns == Columns0001 \cup {"referral_code"} \cup Columns0004

\* ------------------------------------------------------------------- state
VARIABLES
    store,              \* committed state of the database
    tx,                 \* per connection: uncommitted changes outside the open savepoint
    sp,                 \* per connection: uncommitted changes inside the open savepoint
    aborted,            \* per connection: transaction is in the failed state
    pc,                 \* per process: position in run_database_migrations
    idx,                \* per process: position of the loop in MIGRATIONS
    applied_revisions,  \* per process: the set loaded at line 167
    statements,         \* per process: statements of the running upgrade still to execute
    raised,             \* per process: exception that left the last run
    log,                \* per process: logging records of the current run
    faulty,             \* ids whose upgrade body raises
    runs,               \* per process: runs started
    invoked,            \* per process: ids whose upgrade was invoked in this run
    executed,           \* per process: upgrade statements executed in this run
    writes,             \* per process: ids record(id) was attempted for in this run
    scope,              \* per process: tx as it was when the current savepoint opened
    prev,               \* per process: how the previous run ended
    startRows,          \* per process: history rows visible when the run started
    ended,              \* per process: what became of the transaction of the last run
    seed,               \* the committed state the store started with
    clock,              \* the server's time: transactions begun so far
    txStart,            \* per connection: time its transaction began, the value of NOW()
    update,             \* bot: the update being handled and what its collaborators return
    at,                 \* bot: position in the middleware or handler handling it
    effects,            \* bot: calls made while handling it, in order
    user_row            \* bot: the channel verification stored in the user's row

migratorVars ==
    << store, tx, sp, aborted, pc, idx, applied_revisions, statements, raised,
       log, faulty, runs, invoked, executed, writes, scope, prev, startRows,
       ended, seed, clock, txStart >>

vars == << store, tx, sp, aborted, pc, idx, applied_revisions, statements,
           raised, log, faulty, runs, invoked, executed, writes, scope, prev,
           startRows, ended, seed, clock, txStart, update, at, effects, user_row >>

\* ---------------------------------------------------------------- database
\* a referral_code value: SQL NULL or a VARCHAR, a sequence of characters
NULL == [isNone |-> TRUE, chars |-> << >>]
Varchar(chars) == [isNone |-> FALSE, chars |-> chars]

\* the rows of users are a function user_id -> referral_code
NoRows == [u \in {} |-> NULL]

\* the rows of a with the rows of b written over them
Override(a, b) ==
    [u \in DOMAIN a \cup DOMAIN b |-> IF u \in DOMAIN b THEN b[u] ELSE a[u]]

NoChanges == [table |-> FALSE, history |-> {}, columns |-> {}, index |-> FALSE,
              locks |-> {}, rows |-> NoRows]

Merge(a, b) == [table |-> a.table \/ b.table,
                history |-> a.history \cup b.history,
                columns |-> a.columns \cup b.columns,
                index |-> a.index \/ b.index,
                locks |-> a.locks \cup b.locks,
                rows |-> Override(a.rows, b.rows)]

\* what connection p sees: committed state and its own uncommitted changes
Visible(p) == Merge(Merge(store, tx[p]), sp[p])

\* line 22: applied_at defaults to NOW(), the time the inserting transaction
\* began; the rows the store started with were written before time 1
HistoryRow(i, p, n) ==
    [id |-> i, by |-> p, run |-> n,
     applied_at |-> IF p = NoProc THEN 0 ELSE txStart[p]]
RowIds(rows) == {r.id : r \in rows}
Uncommitted(q) == Merge(tx[q], sp[q])

\* table-level lock modes on users: ALTER TABLE, UPDATE, CREATE INDEX
LockOf(s) ==
    CASE s.op = "ADD_COLUMN" -> "AccessExclusive"
      [] s.op = "UPDATE_BACKFILL" -> "RowExclusive"
      [] s.op = "UPDATE_UPPER" -> "RowExclusive"
      [] s.op = "CREATE_INDEX" -> "Share"

Conflict(held, wanted) ==
    \/ held = "AccessExclusive"
    \/ wanted = "AccessExclusive"
    \/ held = "RowExclusive" /\ wanted = "Share"
    \/ held = "Share" /\ wanted = "RowExclusive"

LockBlockers(p, mode) ==
    {q \in Procs \ {p} : \E h \in Uncommitted(q).locks : Conflict(h, mode)}

\* an uncommitted row with the same primary key makes the insert wait
InsertBlockers(p, i) ==
    {q \in Procs \ {p} : i \in RowIds(Uncommitted(q).history)}

\* an uncommitted CREATE TABLE of the same name makes the second one wait
TableBlockers(p) == {q \in Procs \ {p} : Uncommitted(q).table}

\* ------------------------------------------------------------------- Init
\* users as created before the first run: without any migrated column, or with
\* all of them (created from the current table definitions), or in between
SeedColumns == { {}, AllColumns, {"channel_subscription_verified", "referral_code"} }

\* the columns and the index the first k descriptors leave behind
ColumnsAfter(k) ==
    (IF k >= 1 THEN Columns0001 ELSE {}) \cup (IF k >= 2 THEN {"referral_code"} ELSE {})
        \cup (IF k >= 4 THEN Columns0004 ELSE {})
IndexAfter(k) == k >= 2

\* a store an earlier deployment left with the first k descriptors committed
SeedStore(k, columns) ==
    [table |-> k >= 1,
     history |-> {HistoryRow(i, NoProc, 0) : i \in IdsBefore(k + 1)},
     columns |-> ColumnsAfter(k) \cup columns,
     index |-> IndexAfter(k),
     locks |-> {},
     rows |-> NoRows]

FreshStore == SeedStore(0, {})
SeqSeeds == {SeedStore(0, c) : c \in SeedColumns}
RaceSeeds == {SeedStore(k, c) : k \in {0, 1}, c \in SeedColumns}

NoException == [type |-> "None"]
Exception(kind) == [type |-> kind]
NoPrev == [pc |-> "Idle", idx |-> 0, ended |-> "open", type |-> "None"]

TypeFaulty == {f \in SUBSET Ids : Cardinality(f) <= MaxFaulty}

\* no update is being handled while the migrations run at startup
NoUpdate == [kind |-> "none"]
NoChannel == "None"
NoUserRow == [channel_subscription_verified |-> FALSE,
              channel_subscription_verified_for |-> NoChannel]

InitMigrator(seeds, faults) ==
    /\ seed \in seeds
    /\ store = seed
    /\ tx = [p \in Procs |-> NoChanges]
    /\ sp = [p \in Procs |-> NoChanges]
    /\ aborted = [p \in Procs |-> FALSE]
    /\ pc = [p \in Procs |-> "Idle"]
    /\ idx = [p \in Procs |-> 0]
    /\ applied_revisions = [p \in Procs |-> {}]
    /\ statements = [p \in Procs |-> << >>]
    /\ raised = [p \in Procs |-> NoException]
    /\ log = [p \in Procs |-> << >>]
    /\ faulty \in faults
    /\ runs = [p \in Procs |-> 0]
    /\ invoked = [p \in Procs |-> << >>]
    /\ executed = [p \in Procs |-> 0]
    /\ writes = [p \in Procs |-> << >>]
    /\ scope = [p \in Procs |-> NoChanges]
    /\ prev = [p \in Procs |-> NoPrev]
    /\ startRows = [p \in Procs |-> {}]
    /\ ended = [p \in Procs |-> "open"]
    /\ clock = 0
    /\ txStart = [p \in Procs |-> 0]

InitWith(seeds, faults) ==
    /\ InitMigrator(seeds, faults)
    /\ update = NoUpdate
    /\ at = "off"
    /\ effects = << >>
    /\ user_row = NoUserRow

Init == InitWith(SeqSeeds, TypeFaulty)

\* two processes race against stores with pending descriptors; no upgrade
\* body is faulty
InitRace == InitWith(RaceSeeds, {{}})

\* ---------------------------------------------------------------- helpers
Running == {"EnsuringStore", "WaitTable", "LoadingHistory", "Iterating",
            "Applying", "Upgrading", "Recorded"}
Terminal == {"Completed", "Failed"}

\* as Current, but the loop walks the registry from its end
CurrentReversed(p) == MIGRATIONS[Len(MIGRATIONS) + 1 - idx[p]]

Current(p) == MIGRATIONS[idx[p]]

LogRecord(level, msg, m) ==
    [level |-> level, msg |-> msg, id |-> m.id, description |-> m.description]

\* as Fail, but the whole transaction is rolled back, not the savepoint
FailRollbackAll(p, kind) ==
    /\ sp' = [sp EXCEPT ![p] = NoChanges]
    /\ tx' = [tx EXCEPT ![p] = NoChanges]
    /\ log' = [log EXCEPT ![p] = Append(@, LogRecord("error", "failed to apply", Current(p)))]
    /\ raised' = [raised EXCEPT ![p] = Exception(kind)]
    /\ pc' = [pc EXCEPT ![p] = "Failed"]
    /\ statements' = [statements EXCEPT ![p] = << >>]
    /\ UNCHANGED << store, aborted, idx, applied_revisions, faulty, runs,
                    invoked, scope, prev, startRows, ended, seed, clock, txStart, update, at, effects, user_row >>

\* as Fail, but without a savepoint: what the failed attempt did stays
FailKeepsChanges(p, kind) ==
    /\ sp' = [sp EXCEPT ![p] = NoChanges]
    /\ tx' = [tx EXCEPT ![p] = Merge(@, sp[p])]
    /\ log' = [log EXCEPT ![p] = Append(@, LogRecord("error", "failed to apply", Current(p)))]
    /\ raised' = [raised EXCEPT ![p] = Exception(kind)]
    /\ pc' = [pc EXCEPT ![p] = "Failed"]
    /\ statements' = [statements EXCEPT ![p] = << >>]
    /\ UNCHANGED << store, aborted, idx, applied_revisions, faulty, runs,
                    invoked, scope, prev, startRows, ended, seed, clock, txStart, update, at, effects, user_row >>

\* as Fail, but the handler does not re-raise: the loop goes on
FailSwallows(p, kind) ==
    /\ sp' = [sp EXCEPT ![p] = NoChanges]
    /\ log' = [log EXCEPT ![p] = Append(@, LogRecord("error", "failed to apply", Current(p)))]
    /\ pc' = [pc EXCEPT ![p] = "Iterating"]
    /\ idx' = [idx EXCEPT ![p] = @ + 1]
    /\ statements' = [statements EXCEPT ![p] = << >>]
    /\ UNCHANGED << store, tx, aborted, raised, applied_revisions, faulty, runs,
                    invoked, scope, prev, startRows, ended, seed, clock, txStart, update, at, effects, user_row >>

\* as Fail, but the failed descriptor is tried again
FailRetries(p, kind) ==
    /\ sp' = [sp EXCEPT ![p] = NoChanges]
    /\ log' = [log EXCEPT ![p] = Append(@, LogRecord("error", "failed to apply", Current(p)))]
    /\ pc' = [pc EXCEPT ![p] = "Iterating"]
    /\ statements' = [statements EXCEPT ![p] = << >>]
    /\ UNCHANGED << store, tx, aborted, raised, idx, applied_revisions, faulty, runs,
                    invoked, scope, prev, startRows, ended, seed, clock, txStart, update, at, effects, user_row >>

\* lines 190-197: the savepoint is rolled back by the context manager, the
\* error is logged with id and description, and exc is re-raised
Fail(p, kind) ==
    /\ sp' = [sp EXCEPT ![p] = NoChanges]
    /\ log' = [log EXCEPT ![p] = Append(@, LogRecord("error", "failed to apply", Current(p)))]
    /\ raised' = [raised EXCEPT ![p] = Exception(kind)]
    /\ pc' = [pc EXCEPT ![p] = "Failed"]
    /\ statements' = [statements EXCEPT ![p] = << >>]
    /\ UNCHANGED << store, tx, aborted, idx, applied_revisions, faulty, runs,
                    invoked, scope, prev, startRows, ended, seed, clock, txStart, update, at, effects, user_row >>

\* as FailOuter, but the exception is caught and the loop is entered as if
\* nothing had been applied
FailOuterContinues(p, kind) ==
    /\ raised' = [raised EXCEPT ![p] = Exception(kind)]
    /\ pc' = [pc EXCEPT ![p] = "Iterating"]
    /\ idx' = [idx EXCEPT ![p] = 1]
    /\ aborted' = [aborted EXCEPT ![p] = TRUE]
    /\ UNCHANGED << store, tx, sp, applied_revisions, statements, log,
                    faulty, runs, invoked, executed, writes, scope, prev,
                    startRows, ended, seed, clock, txStart, update, at, effects, user_row >>

\* an exception of lines 165-172 is not caught: nothing is logged, and the
\* statement that failed outside any savepoint leaves the transaction failed
FailOuter(p, kind) ==
    /\ raised' = [raised EXCEPT ![p] = Exception(kind)]
    /\ pc' = [pc EXCEPT ![p] = "Failed"]
    /\ aborted' = [aborted EXCEPT ![p] = TRUE]
    /\ UNCHANGED << store, tx, sp, idx, applied_revisions, statements, log,
                    faulty, runs, invoked, executed, writes, scope, prev,
                    startRows, ended, seed, clock, txStart, update, at, effects, user_row >>

\* ----------------------------------------------------------------- caller
\* the connection has no transaction open: the first statement of the run,
\* line 17, begins one
BeginsTransaction(p) == pc[p] = "Idle" \/ ended[p] # "open"

\* the caller invokes run_database_migrations(connection)
run_database_migrations(p) ==
    /\ pc[p] \in {"Idle", "Crashed"} \cup Terminal
    /\ runs[p] < MaxRuns
    /\ ~aborted[p]
    /\ pc' = [pc EXCEPT ![p] = "EnsuringStore"]
    /\ runs' = [runs EXCEPT ![p] = @ + 1]
    /\ idx' = [idx EXCEPT ![p] = 0]
    /\ applied_revisions' = [applied_revisions EXCEPT ![p] = {}]
    /\ statements' = [statements EXCEPT ![p] = << >>]
    /\ raised' = [raised EXCEPT ![p] = NoException]
    /\ log' = [log EXCEPT ![p] = << >>]
    /\ invoked' = [invoked EXCEPT ![p] = << >>]
    /\ executed' = [executed EXCEPT ![p] = 0]
    /\ writes' = [writes EXCEPT ![p] = << >>]
    /\ scope' = [scope EXCEPT ![p] = NoChanges]
    /\ prev' = [prev EXCEPT ![p] = [pc |-> pc[p], idx |-> idx[p],
                                    ended |-> ended[p], type |-> raised[p].type]]
    /\ startRows' = [startRows EXCEPT ![p] = Visible(p).history]
    /\ ended' = [ended EXCEPT ![p] = "open"]
    /\ clock' = IF BeginsTransaction(p) THEN clock + 1 ELSE clock
    /\ txStart' = IF BeginsTransaction(p) THEN [txStart EXCEPT ![p] = clock + 1]
                                          ELSE txStart
    /\ UNCHANGED << store, tx, sp, aborted, faulty, seed, update, at, effects, user_row >>

\* the caller commits the transaction the run was made in
Commit(p) ==
    /\ pc[p] \in Terminal
    /\ ended[p] = "open"
    /\ store' = IF aborted[p] THEN store
                ELSE [Merge(store, tx[p]) EXCEPT !.locks = {}]
    /\ tx' = [tx EXCEPT ![p] = NoChanges]
    /\ ended' = [ended EXCEPT ![p] = IF aborted[p] THEN "rolledback" ELSE "committed"]
    /\ aborted' = [aborted EXCEPT ![p] = FALSE]
    /\ UNCHANGED << sp, pc, idx, applied_revisions, statements, raised, log,
                    faulty, runs, invoked, executed, writes, scope, prev,
                    startRows, seed, clock, txStart, update, at, effects, user_row >>

\* the caller rolls the transaction back
Rollback(p) ==
    /\ pc[p] \in Terminal
    /\ ended[p] = "open"
    /\ tx' = [tx EXCEPT ![p] = NoChanges]
    /\ ended' = [ended EXCEPT ![p] = "rolledback"]
    /\ aborted' = [aborted EXCEPT ![p] = FALSE]
    /\ UNCHANGED << store, sp, pc, idx, applied_revisions, statements, raised,
                    log, faulty, runs, invoked, executed, writes, scope, prev,
                    startRows, seed, clock, txStart, update, at, effects, user_row >>

\* the process dies during a run: the server rolls its transaction back
Crash(p) ==
    /\ pc[p] \in Running
    /\ tx' = [tx EXCEPT ![p] = NoChanges]
    /\ sp' = [sp EXCEPT ![p] = NoChanges]
    /\ aborted' = [aborted EXCEPT ![p] = FALSE]
    /\ pc' = [pc EXCEPT ![p] = "Crashed"]
    /\ ended' = [ended EXCEPT ![p] = "rolledback"]
    /\ statements' = [statements EXCEPT ![p] = << >>]
    /\ UNCHANGED << store, idx, applied_revisions, raised, log, faulty, runs,
                    invoked, executed, writes, scope, prev, startRows, seed, clock, txStart, update, at, effects, user_row >>

\* the operator ships a fixed upgrade body while no run is in progress
Fix ==
    /\ \A p \in Procs : pc[p] \notin Running
    /\ \E i \in faulty : faulty' = faulty \ {i}
    /\ UNCHANGED << store, tx, sp, aborted, pc, idx, applied_revisions,
                    statements, raised, log, runs, invoked, executed, writes,
                    scope, prev, startRows, ended, seed, clock, txStart, update, at, effects, user_row >>

\* ------------------------------------------------- run_database_migrations
\* line 165: CREATE TABLE IF NOT EXISTS schema_migrations
_ensure_migrations_table(p) ==
    /\ pc[p] = "EnsuringStore"
    /\ IF Visible(p).table
       THEN /\ pc' = [pc EXCEPT ![p] = "LoadingHistory"]
            /\ tx' = tx
       ELSE IF TableBlockers(p) = {}
       THEN /\ pc' = [pc EXCEPT ![p] = "LoadingHistory"]
            /\ tx' = [tx EXCEPT ![p].table = TRUE]
       ELSE /\ pc' = [pc EXCEPT ![p] = "WaitTable"]
            /\ tx' = tx
    /\ UNCHANGED << store, sp, aborted, idx, applied_revisions, statements,
                    raised, log, faulty, runs, invoked, executed, writes, scope,
                    prev, startRows, ended, seed, clock, txStart, update, at, effects, user_row >>

\* the CREATE TABLE that waited for another transaction's uncommitted table:
\* a duplicate-key error if that transaction committed, the table otherwise
ResumeTable(p) ==
    /\ pc[p] = "WaitTable"
    /\ TableBlockers(p) = {}
    /\ IF store.table
       THEN FailOuter(p, "UniqueViolation")
       ELSE /\ pc' = [pc EXCEPT ![p] = "LoadingHistory"]
            /\ tx' = [tx EXCEPT ![p].table = TRUE]
            /\ UNCHANGED << store, sp, aborted, idx, applied_revisions,
                            statements, raised, log, faulty, runs, invoked,
                            executed, writes, scope, prev, startRows, ended, seed, clock, txStart, update, at, effects, user_row >>

\* the ids the SELECT of lines 167-172 returns
LoadedIdsNone(p) == {}
LoadedIdsAll(p) == Ids
LoadedIds(p) == RowIds(Visible(p).history)

\* lines 167-172: SELECT id FROM schema_migrations
LoadApplied(p) ==
    /\ pc[p] = "LoadingHistory"
    /\ applied_revisions' = [applied_revisions EXCEPT ![p] = LoadedIds(p)]
    /\ idx' = [idx EXCEPT ![p] = 1]
    /\ pc' = [pc EXCEPT ![p] = "Iterating"]
    /\ UNCHANGED << store, tx, sp, aborted, statements, raised, log, faulty,
                    runs, invoked, executed, writes, scope, prev, startRows,
                    ended, seed, clock, txStart, update, at, effects, user_row >>

\* as Skip, without the membership test: an applied revision is applied again
SkipAsPending(p) ==
    /\ pc[p] = "Iterating"
    /\ idx[p] <= Len(MIGRATIONS)
    /\ Current(p).id \in applied_revisions[p]
    /\ scope' = [scope EXCEPT ![p] = tx[p]]
    /\ pc' = [pc EXCEPT ![p] = "Applying"]
    /\ UNCHANGED << store, tx, sp, aborted, idx, applied_revisions, statements,
                    raised, log, faulty, runs, invoked, executed, writes, prev,
                    startRows, ended, seed, clock, txStart, update, at, effects, user_row >>

\* as Skip, but the applied set is read again for every descriptor
SkipRefreshed(p) ==
    /\ pc[p] = "Iterating"
    /\ idx[p] <= Len(MIGRATIONS)
    /\ Current(p).id \in RowIds(Visible(p).history)
    /\ idx' = [idx EXCEPT ![p] = @ + 1]
    /\ UNCHANGED << store, tx, sp, aborted, pc, applied_revisions, statements,
                    raised, log, faulty, runs, invoked, executed, writes, scope,
                    prev, startRows, ended, seed, clock, txStart, update, at, effects, user_row >>

\* lines 174-176: an applied revision is skipped
Skip(p) ==
    /\ pc[p] = "Iterating"
    /\ idx[p] <= Len(MIGRATIONS)
    /\ Current(p).id \in applied_revisions[p]
    /\ idx' = [idx EXCEPT ![p] = @ + 1]
    /\ UNCHANGED << store, tx, sp, aborted, pc, applied_revisions, statements,
                    raised, log, faulty, runs, invoked, executed, writes, scope,
                    prev, startRows, ended, seed, clock, txStart, update, at, effects, user_row >>

\* lines 178-182: log, then open the savepoint
BeginNested(p) ==
    /\ pc[p] = "Iterating"
    /\ idx[p] <= Len(MIGRATIONS)
    /\ Current(p).id \notin applied_revisions[p]
    /\ log' = [log EXCEPT ![p] = Append(@, LogRecord("info", "applying", Current(p)))]
    /\ scope' = [scope EXCEPT ![p] = tx[p]]
    /\ sp' = [sp EXCEPT ![p] = NoChanges]
    /\ pc' = [pc EXCEPT ![p] = "Applying"]
    /\ UNCHANGED << store, tx, aborted, idx, applied_revisions, statements,
                    raised, faulty, runs, invoked, executed, writes, prev,
                    startRows, ended, seed, clock, txStart, update, at, effects, user_row >>

\* line 183, head of the upgrade body: inspector.get_columns("users") and the
\* statements the body decides on
Inspect(p) ==
    /\ pc[p] = "Applying"
    /\ invoked' = [invoked EXCEPT ![p] = Append(@, Current(p).id)]
    /\ statements' = [statements EXCEPT ![p] = Upgrade(Current(p), Visible(p).columns)]
    /\ pc' = [pc EXCEPT ![p] = "Upgrading"]
    /\ UNCHANGED << store, tx, sp, aborted, idx, applied_revisions, raised, log,
                    faulty, runs, executed, writes, scope, prev, startRows,
                    ended, seed, clock, txStart, update, at, effects, user_row >>

\* as UpperOf, but only the letter a is raised
UpperOfFirstLetter(ch) == IF ch = "a" THEN "A" ELSE ch

\* UPPER(...) of PostgreSQL on the characters the codes are made of
UpperOf(ch) ==
    CASE ch = "a" -> "A" [] ch = "b" -> "B" [] ch = "c" -> "C"
      [] ch = "d" -> "D" [] ch = "e" -> "E" [] ch = "f" -> "F"
      [] OTHER -> ch

RECURSIVE UpperChars(_)
UpperChars(chars) ==
    IF chars = << >> THEN << >>
    ELSE << UpperOf(Head(chars)) >> \o UpperChars(Tail(chars))

UPPER(c) == IF c.isNone THEN NULL ELSE Varchar(UpperChars(c.chars))

\* values of md5(user_id::text || clock_timestamp()::text || random()::text):
\* strings of hexadecimal digits, two of them with the same first nine
Md5Values ==
    { << "a", "1", "b", "2", "c", "3", "d", "4", "e", "5", "f", "6" >>,
      << "a", "1", "b", "2", "c", "3", "d", "4", "e", "0", "0", "0" >>,
      << "0", "9", "f", "8", "e", "7", "d", "6", "c", "5", "b", "4" >> }

\* lines 66-75: UPPER(SUBSTRING(md5(...) FROM 1 FOR 9))
GeneratedCodes == {UPPER(Varchar(SubSeq(h, 1, 9))) : h \in Md5Values}

\* as LacksCode, but an empty code counts as a code
LacksCodeNullOnly(c) == c.isNone

\* line 77: WHERE referral_code IS NULL OR referral_code = ''
LacksCode(c) == c.isNone \/ c.chars = << >>

\* lines 60-85: every row that lacks a code is given a generated one
Backfills(rows) == [{u \in DOMAIN rows : LacksCode(rows[u])} -> GeneratedCodes]

\* lines 104-113: the rows whose code differs from its uppercase form
Uppered(rows) ==
    [u \in {v \in DOMAIN rows : ~rows[v].isNone /\ rows[v] # UPPER(rows[v])} |->
        UPPER(rows[u])]

\* the rows a statement may write, given the rows its connection sees
RowWrites(p, s) ==
    CASE s.op = "UPDATE_BACKFILL" -> Backfills(Visible(p).rows)
      [] s.op = "UPDATE_UPPER" -> {Uppered(Visible(p).rows)}
      [] OTHER -> {NoRows}

\* uq_users_referral_code: two rows with the same non-NULL code
Duplicates(rows) ==
    \E u, v \in DOMAIN rows : u # v /\ ~rows[u].isNone /\ rows[u] = rows[v]

\* the effect of one statement of an upgrade body on the savepoint's changes
Effect(p, s, w) ==
    CASE s.op = "ADD_COLUMN" ->
            [sp[p] EXCEPT !.columns = @ \cup {s.col}, !.locks = @ \cup {LockOf(s)}]
      [] s.op = "CREATE_INDEX" ->
            [sp[p] EXCEPT !.index = TRUE, !.locks = @ \cup {LockOf(s)}]
      [] OTHER ->
            [sp[p] EXCEPT !.rows = Override(@, w), !.locks = @ \cup {LockOf(s)}]

\* the error the statement raises, "None" if it succeeds
ErrorOf(p, s, w) ==
    CASE s.op = "ADD_COLUMN" /\ s.col \in Visible(p).columns -> "DuplicateColumn"
      [] s.op # "ADD_COLUMN" /\ s.col \notin Visible(p).columns -> "UndefinedColumn"
      [] s.op = "CREATE_INDEX" /\ ~Visible(p).index /\ Duplicates(Visible(p).rows) ->
            "UniqueViolation"
      [] s.op \in {"UPDATE_BACKFILL", "UPDATE_UPPER"} /\ Visible(p).index
            /\ Duplicates(Override(Visible(p).rows, w)) -> "UniqueViolation"
      [] OTHER -> "None"

\* one connection.execute of the upgrade body; it waits for its table lock
ExecStmt(p) ==
    /\ pc[p] = "Upgrading"
    /\ statements[p] # << >>
    /\ LET s == Head(statements[p]) IN
        /\ LockBlockers(p, LockOf(s)) = {}
        /\ executed' = [executed EXCEPT ![p] = @ + 1]
        /\ writes' = writes
        /\ \E w \in RowWrites(p, s) :
              IF ErrorOf(p, s, w) # "None"
              THEN Fail(p, ErrorOf(p, s, w))
              ELSE /\ sp' = [sp EXCEPT ![p] = Effect(p, s, w)]
                   /\ statements' = [statements EXCEPT ![p] = Tail(@)]
                   /\ UNCHANGED << store, tx, aborted, pc, idx, applied_revisions,
                                   raised, log, faulty, runs, invoked, scope, prev,
                                   startRows, ended, seed, clock, txStart, update, at, effects, user_row >>

\* the upgrade body of a faulty descriptor raises, at any point of the body
UpgradeFault(p) ==
    /\ pc[p] = "Upgrading"
    /\ Current(p).id \in faulty
    /\ UNCHANGED << executed, writes >>
    /\ Fail(p, "UpgradeError")

\* as Record, against a table whose id column is no primary key
RecordWithoutKey(p) ==
    /\ pc[p] = "Upgrading"
    /\ statements[p] = << >>
    /\ Current(p).id \notin faulty
    /\ writes' = [writes EXCEPT ![p] = Append(@, Current(p).id)]
    /\ sp' = [sp EXCEPT ![p].history = @ \cup {HistoryRow(Current(p).id, p, runs[p])}]
    /\ pc' = [pc EXCEPT ![p] = "Recorded"]
    /\ UNCHANGED << store, tx, aborted, idx, applied_revisions, statements,
                    raised, log, faulty, runs, invoked, executed, scope, prev,
                    startRows, ended, seed, clock, txStart, update, at, effects, user_row >>

\* as Record, but the row is inserted with the description as its id
RecordDescription(p) ==
    /\ pc[p] = "Upgrading"
    /\ statements[p] = << >>
    /\ Current(p).id \notin faulty
    /\ InsertBlockers(p, Current(p).id) = {}
    /\ writes' = [writes EXCEPT ![p] = Append(@, Current(p).id)]
    /\ executed' = executed
    /\ sp' = [sp EXCEPT ![p].history =
                @ \cup {HistoryRow(Current(p).description, p, runs[p])}]
    /\ pc' = [pc EXCEPT ![p] = "Recorded"]
    /\ UNCHANGED << store, tx, aborted, idx, applied_revisions,
                    statements, raised, log, faulty, runs, invoked,
                    scope, prev, startRows, ended, seed, clock, txStart, update, at, effects, user_row >>

\* lines 184-189: INSERT INTO schema_migrations (id); it waits for an
\* uncommitted row with the same key, and the primary key rejects a second row
Record(p) ==
    /\ pc[p] = "Upgrading"
    /\ statements[p] = << >>
    /\ Current(p).id \notin faulty
    /\ InsertBlockers(p, Current(p).id) = {}
    /\ writes' = [writes EXCEPT ![p] = Append(@, Current(p).id)]
    /\ executed' = executed
    /\ IF Current(p).id \in RowIds(Visible(p).history)
       THEN Fail(p, "UniqueViolation")
       ELSE /\ sp' = [sp EXCEPT ![p].history =
                        @ \cup {HistoryRow(Current(p).id, p, runs[p])}]
            /\ pc' = [pc EXCEPT ![p] = "Recorded"]
            /\ UNCHANGED << store, tx, aborted, idx, applied_revisions,
                            statements, raised, log, faulty, runs, invoked,
                            scope, prev, startRows, ended, seed, clock, txStart, update, at, effects, user_row >>

\* as Release, but the savepoint is rolled back instead of released
ReleaseDiscards(p) ==
    /\ pc[p] = "Recorded"
    /\ sp' = [sp EXCEPT ![p] = NoChanges]
    /\ log' = [log EXCEPT ![p] = Append(@, LogRecord("info", "applied successfully", Current(p)))]
    /\ idx' = [idx EXCEPT ![p] = @ + 1]
    /\ pc' = [pc EXCEPT ![p] = "Iterating"]
    /\ UNCHANGED << store, tx, aborted, applied_revisions, statements, raised,
                    faulty, runs, invoked, executed, writes, scope, prev,
                    startRows, ended, seed, clock, txStart, update, at, effects, user_row >>

\* as Release, but the connection is committed after every descriptor
ReleaseCommits(p) ==
    /\ pc[p] = "Recorded"
    /\ store' = [Merge(store, Merge(tx[p], sp[p])) EXCEPT !.locks = {}]
    /\ tx' = [tx EXCEPT ![p] = NoChanges]
    /\ sp' = [sp EXCEPT ![p] = NoChanges]
    /\ log' = [log EXCEPT ![p] = Append(@, LogRecord("info", "applied successfully", Current(p)))]
    /\ idx' = [idx EXCEPT ![p] = @ + 1]
    /\ pc' = [pc EXCEPT ![p] = "Iterating"]
    /\ UNCHANGED << aborted, applied_revisions, statements, raised,
                    faulty, runs, invoked, executed, writes, scope, prev,
                    startRows, ended, seed, clock, txStart, update, at, effects, user_row >>

\* end of the with block and line 199: the savepoint is released
Release(p) ==
    /\ pc[p] = "Recorded"
    /\ tx' = [tx EXCEPT ![p] = Merge(@, sp[p])]
    /\ sp' = [sp EXCEPT ![p] = NoChanges]
    /\ log' = [log EXCEPT ![p] = Append(@, LogRecord("info", "applied successfully", Current(p)))]
    /\ idx' = [idx EXCEPT ![p] = @ + 1]
    /\ pc' = [pc EXCEPT ![p] = "Iterating"]
    /\ UNCHANGED << store, aborted, applied_revisions, statements, raised,
                    faulty, runs, invoked, executed, writes, scope, prev,
                    startRows, ended, seed, clock, txStart, update, at, effects, user_row >>

\* as Return, but the loop ends one descriptor early
ReturnEarly(p) ==
    /\ pc[p] = "Iterating"
    /\ idx[p] >= Len(MIGRATIONS)
    /\ pc' = [pc EXCEPT ![p] = "Completed"]
    /\ UNCHANGED << store, tx, sp, aborted, idx, applied_revisions, statements,
                    raised, log, faulty, runs, invoked, executed, writes, scope,
                    prev, startRows, ended, seed, clock, txStart, update, at, effects, user_row >>

\* the loop is exhausted: the function returns
Return(p) ==
    /\ pc[p] = "Iterating"
    /\ idx[p] > Len(MIGRATIONS)
    /\ pc' = [pc EXCEPT ![p] = "Completed"]
    /\ UNCHANGED << store, tx, sp, aborted, idx, applied_revisions, statements,
                    raised, log, faulty, runs, invoked, executed, writes, scope,
                    prev, startRows, ended, seed, clock, txStart, update, at, effects, user_row >>

\* what p's next statement waits for
WaitsFor(p) ==
    CASE pc[p] = "Upgrading" /\ statements[p] # << >> ->
            LockBlockers(p, LockOf(Head(statements[p])))
      [] pc[p] = "Upgrading" /\ statements[p] = << >> ->
            InsertBlockers(p, Current(p).id)
      [] pc[p] = "WaitTable" -> TableBlockers(p)
      [] OTHER -> {}

\* two statements wait for each other: the server aborts one of them
DeadlockAbort(p) ==
    /\ pc[p] = "Upgrading"
    /\ \E q \in WaitsFor(p) : p \in WaitsFor(q)
    /\ UNCHANGED << executed, writes >>
    /\ Fail(p, "DeadlockDetected")

\* ---------------------------------------------------------- specifications
Step(p) ==
    \/ run_database_migrations(p) \/ Commit(p) \/ Rollback(p) \/ Crash(p)
    \/ _ensure_migrations_table(p) \/ LoadApplied(p) \/ Skip(p) \/ BeginNested(p)
    \/ Inspect(p) \/ ExecStmt(p) \/ UpgradeFault(p) \/ Record(p) \/ Release(p)
    \/ Return(p)

\* one process, one connection: runs follow each other
Next == Step("p1") \/ Fix

Spec == Init /\ [][Next]_vars

\* two processes run against the same store
NextRace ==
    \E p \in Procs :
        \/ runs[p] < RaceRuns /\ run_database_migrations(p)
        \/ Commit(p) \/ Rollback(p)
        \/ _ensure_migrations_table(p) \/ ResumeTable(p) \/ LoadApplied(p) \/ Skip(p)
        \/ BeginNested(p) \/ Inspect(p) \/ ExecStmt(p) \/ Record(p)
        \/ Release(p) \/ Return(p) \/ DeadlockAbort(p)

SpecRace == InitRace /\ [][NextRace]_vars

\* two processes race while some upgrade bodies raise until they are repaired;
\* the callers keep what a run leaves: they commit, whether the run completed
\* or failed
FaultyRaceSeeds == {SeedStore(k, {}) : k \in {0, 1}}
InitFaultyRace == InitWith(FaultyRaceSeeds, TypeFaulty)
NextFaultyRace ==
    \/ \E p \in Procs :
        \/ runs[p] < RaceRuns /\ run_database_migrations(p)
        \/ Commit(p)
        \/ _ensure_migrations_table(p) \/ ResumeTable(p) \/ LoadApplied(p) \/ Skip(p)
        \/ BeginNested(p) \/ Inspect(p) \/ ExecStmt(p) \/ UpgradeFault(p) \/ Record(p)
        \/ Release(p) \/ Return(p) \/ DeadlockAbort(p)
    \/ Fix
SpecFaultyRace == InitFaultyRace /\ [][NextFaultyRace]_vars

\* the statements on schema_migrations may raise: the server is unreachable,
\* or the role may not create or read the table
StoreFault == "schema_migrations"

\* line 165: the CREATE TABLE raises
EnsureFault(p) ==
    /\ pc[p] = "EnsuringStore"
    /\ StoreFault \in faulty
    /\ FailOuter(p, "OperationalError")

\* lines 167-172: the SELECT raises
LoadFault(p) ==
    /\ pc[p] = "LoadingHistory"
    /\ StoreFault \in faulty
    /\ FailOuter(p, "OperationalError")

\* two processes run against a store whose bookkeeping statements may raise
StoreSeeds == {SeedStore(k, {"channel_subscription_verified", "referral_code"}) : k \in {0, 1}}
InitStore == InitWith(StoreSeeds, {{StoreFault}})
NextStore == NextRace \/ (\E p \in Procs : EnsureFault(p) \/ LoadFault(p))
SpecStore == InitStore /\ [][NextStore]_vars

\* the columns the body at position k adds
BodyColumns(k) == ColumnsAfter(k) \ ColumnsAfter(k - 1)

\* stores an earlier deployment left with a prefix of the registry applied
PrefixSeeds == {SeedStore(k, {}) : k \in 0..Len(MIGRATIONS)}

\* stores in which the body at position k is pending and some of what it
\* creates is already there: any of its columns, and the index where its
\* column exists
PartialStore(k, columns, index) ==
    [SeedStore(k - 1, columns) EXCEPT !.index = @ \/ index]
PartialSeeds ==
    {s \in UNION {{PartialStore(k, c, x) : c \in SUBSET BodyColumns(k), x \in BOOLEAN} :
                     k \in Positions} :
        s.index => CreateUniqueIndex.col \in s.columns}

\* stores whose history holds any subset of the registry's ids, a prefix or
\* not, with users as first created or as the current table definitions
\* create it
AnyHistorySeeds ==
    {[table |-> TRUE, history |-> {HistoryRow(i, NoProc, 0) : i \in S},
      columns |-> c, index |-> FALSE, locks |-> {}, rows |-> NoRows] :
        S \in SUBSET Ids, c \in {{}, AllColumns}}

\* one connection runs against a store left by an earlier deployment or by
\* an interrupted attempt; no upgrade body is faulty
InitSeeded == InitWith(PrefixSeeds \cup PartialSeeds \cup AnyHistorySeeds, {{}})
NextSeeded ==
    \/ run_database_migrations("p1") \/ Commit("p1") \/ Rollback("p1") \/ Crash("p1")
    \/ _ensure_migrations_table("p1") \/ LoadApplied("p1") \/ Skip("p1")
    \/ BeginNested("p1") \/ Inspect("p1") \/ ExecStmt("p1") \/ Record("p1")
    \/ Release("p1") \/ Return("p1")
SpecSeeded == InitSeeded /\ [][NextSeeded]_vars

\* the statements of run_database_migrations itself: each returns or raises
EngineStep(p) ==
    \/ _ensure_migrations_table(p) \/ LoadApplied(p) \/ Skip(p) \/ BeginNested(p)
    \/ Inspect(p) \/ ExecStmt(p) \/ UpgradeFault(p) \/ Record(p) \/ Release(p)
    \/ Return(p)

\* one process that is not killed: the interpreter goes on to the next
\* statement of the function as long as there is one
NextLive ==
    \/ run_database_migrations("p1") \/ Commit("p1") \/ Rollback("p1")
    \/ EngineStep("p1") \/ Fix
SpecLive == Init /\ [][NextLive]_vars /\ WF_vars(EngineStep("p1"))

\* ------------------------------------------------------- rows of users
Users == {"u1", "u2"}

\* referral codes found in users before a run: none, empty, lowercase,
\* uppercase, and one that a generated code may repeat
StoredCodes ==
    {NULL, Varchar(<< >>), Varchar(<< "a", "b", "c" >>), Varchar(<< "A", "B", "C" >>),
     Varchar(<< "A", "1", "B", "2", "C", "3", "D", "4", "E" >>)}

WithRows(s, rows) == [s EXCEPT !.rows = rows]

\* stores with rows in users: referral_code not yet added (every code NULL);
\* 0002 pending or applied with the column there, with or without its index;
\* and a store whose history holds 0002 although the column is gone
RowSeeds ==
    {WithRows(SeedStore(k, {}), [u \in Users |-> NULL]) : k \in {0, 1}}
    \cup
    {s \in {WithRows(PartialStore(k, {"referral_code"}, x), r) :
                k \in {2, 3}, x \in BOOLEAN, r \in [Users -> StoredCodes]} :
        s.index => ~Duplicates(s.rows)}
    \cup
    {WithRows([SeedStore(2, {}) EXCEPT !.columns = @ \ {"referral_code"},
                                       !.index = FALSE],
              [u \in Users |-> NULL])}

\* one connection runs against a store whose users table has rows; no
\* upgrade body is faulty
InitRows == InitWith(RowSeeds, {{}})
NextRows ==
    \/ run_database_migrations("p1") \/ Commit("p1") \/ Rollback("p1") \/ Crash("p1")
    \/ _ensure_migrations_table("p1") \/ LoadApplied("p1") \/ Skip("p1")
    \/ BeginNested("p1") \/ Inspect("p1") \/ ExecStmt("p1") \/ Record("p1")
    \/ Release("p1") \/ Return("p1")
SpecRows == InitRows /\ [][NextRows]_vars

\* -------------------------------------------- TermsAcceptanceMiddleware
\* str values are sequences of characters; an Optional[str] is None or a str
None == [isNone |-> TRUE, chars |-> << >>]
Str(chars) == [isNone |-> FALSE, chars |-> chars]
Truthy(s) == ~s.isNone /\ s.chars # << >>
startswith(s, prefix) ==
    Len(prefix) <= Len(s.chars) /\ SubSeq(s.chars, 1, Len(prefix)) = prefix

StartPrefix == << "/", "s", "t", "a", "r", "t" >>
TermsPrefix == << "t", "e", "r", "m", "s", ":" >>

\* message texts and callback data the updates carry
Texts ==
    {None, Str(<< >>), Str(StartPrefix),
     Str(StartPrefix \o << " ", "r", "e", "f", "_", "7" >>),
     Str(<< "/", "s", "t", "a", "r" >>),
     Str(<< "/", "h", "e", "l", "p" >>),
     Str(<< " " >> \o StartPrefix)}
CallbackData ==
    {None, Str(<< >>), Str(TermsPrefix \o << "a", "c", "c", "e", "p", "t" >>),
     Str(TermsPrefix),
     Str(<< "t", "e", "r", "m", "s" >>),
     Str(<< "m", "e", "n", "u", ":" >> \o TermsPrefix)}

\* data["event_from_user"]: absent, an administrator, or another user
NoUser == "None"
UserIds == {"admin", "user"}
ADMIN_IDS == {"admin"}

\* an update together with what the collaborators of the middleware return
\* for it: user_dal.get_user_by_id raises, finds no row, or finds the user
Updates ==
    [kind : {"message"}, event_from_user : UserIds \cup {NoUser}, text : Texts,
     data : {None}, has_message : {TRUE},
     lookup : {"raises", "missing", "found"}, terms_accepted : BOOLEAN,
     i18n : BOOLEAN]
    \cup
    [kind : {"callback_query"}, event_from_user : UserIds \cup {NoUser},
     text : {None}, data : CallbackData, has_message : BOOLEAN,
     lookup : {"raises", "missing", "found"}, terms_accepted : BOOLEAN,
     i18n : BOOLEAN]
    \cup
    [kind : {"other"}, event_from_user : UserIds \cup {NoUser},
     text : {None}, data : {None}, has_message : {FALSE},
     lookup : {"raises", "missing", "found"}, terms_accepted : BOOLEAN,
     i18n : BOOLEAN]

\* how a call of the Telegram API ends
Outcomes == {"ok", "TelegramForbiddenError", "TelegramAPIError", "AiogramError",
             "Exception"}

Call(name, arg, outcome) == [call |-> name, arg |-> arg, outcome |-> outcome]
Called(name) == \E j \in 1..Len(effects) : effects[j].call = name

\* return await handler(event, data)
CallHandler ==
    /\ effects' = Append(effects, Call("handler", update.kind, "ok"))
    /\ at' = "returned"
    /\ UNCHANGED << update, user_row, migratorVars >>

\* lines 30-31
PassNoUser ==
    /\ at = "__call__"
    /\ update.event_from_user = NoUser
    /\ CallHandler

\* lines 34-35
PassAdmin ==
    /\ at = "__call__"
    /\ update.event_from_user # NoUser
    /\ update.event_from_user \in ADMIN_IDS
    /\ CallHandler

Gated == update.event_from_user # NoUser /\ update.event_from_user \notin ADMIN_IDS

\* as IsStartCommand, but "/start" may stand anywhere in the text
IsStartCommandAnywhere(u) ==
    /\ u.kind = "message"
    /\ Truthy(u.text)
    /\ \E k \in 1..Len(u.text.chars) :
          startswith(Str(SubSeq(u.text.chars, k, Len(u.text.chars))), StartPrefix)

\* line 45
IsStartCommand(u) ==
    u.kind = "message" /\ Truthy(u.text) /\ startswith(u.text, StartPrefix)

\* lines 49-50
IsTermsCallback(u) ==
    u.kind = "callback_query" /\ Truthy(u.data) /\ startswith(u.data, TermsPrefix)

\* lines 45-46
PassStart ==
    /\ at = "__call__"
    /\ Gated
    /\ IsStartCommand(update)
    /\ CallHandler

\* lines 49-51
PassTermsCallback ==
    /\ at = "__call__"
    /\ Gated
    /\ ~IsStartCommand(update)
    /\ IsTermsCallback(update)
    /\ CallHandler

\* lines 53-55: the user is fetched
GetUser ==
    /\ at = "__call__"
    /\ Gated
    /\ ~IsStartCommand(update) /\ ~IsTermsCallback(update)
    /\ update.lookup # "raises"
    /\ effects' = Append(effects, Call("get_user_by_id", update.event_from_user, "ok"))
    /\ at' = "fetched"
    /\ UNCHANGED << update, user_row, migratorVars >>

\* as GetUserRaises, but the update is dropped when the lookup fails
GetUserRaisesDrops ==
    /\ at = "__call__"
    /\ Gated
    /\ ~IsStartCommand(update) /\ ~IsTermsCallback(update)
    /\ update.lookup = "raises"
    /\ effects' = effects \o
          << Call("get_user_by_id", update.event_from_user, "Exception"),
             Call("logging.error", "DB error fetching user", "ok") >>
    /\ at' = "returned"
    /\ UNCHANGED << update, user_row, migratorVars >>

\* lines 56-60: the lookup raises; the error is logged and the handler called
GetUserRaises ==
    /\ at = "__call__"
    /\ Gated
    /\ ~IsStartCommand(update) /\ ~IsTermsCallback(update)
    /\ update.lookup = "raises"
    /\ effects' = effects \o
          << Call("get_user_by_id", update.event_from_user, "Exception"),
             Call("logging.error", "DB error fetching user", "ok"),
             Call("handler", update.kind, "ok") >>
    /\ at' = "returned"
    /\ UNCHANGED << update, user_row, migratorVars >>

\* lines 63-64
PassUnknownUser ==
    /\ at = "fetched"
    /\ update.lookup = "missing"
    /\ CallHandler

\* lines 67 and 122: the user has accepted the terms
PassAccepted ==
    /\ at = "fetched"
    /\ update.lookup = "found" /\ update.terms_accepted
    /\ CallHandler

\* lines 78-85: the notification text, and whether a keyboard is attached
TermsMessageText(u) ==
    IF u.i18n THEN "terms_acceptance_required" ELSE "default terms text"

ApiCall(name, o) == Call(name, TermsMessageText(update), o)

\* lines 67-85: the user has not accepted the terms
Block ==
    /\ at = "fetched"
    /\ update.lookup = "found" /\ ~update.terms_accepted
    /\ effects' = Append(effects, Call("logging.info", "Blocking access", "ok"))
    /\ at' = "notify"
    /\ UNCHANGED << update, user_row, migratorVars >>

\* lines 88-90
NotifyMessage ==
    /\ at = "notify"
    /\ update.kind = "message"
    /\ \E o \in Outcomes :
          /\ effects' = Append(effects, ApiCall("message.answer", o))
          /\ at' = IF o = "ok" THEN "notified" ELSE "except"
    /\ UNCHANGED << update, user_row, migratorVars >>

\* lines 91-94 and 103
NotifyCallbackAnswer ==
    /\ at = "notify"
    /\ update.kind = "callback_query"
    /\ \E o \in Outcomes :
          /\ effects' = Append(effects, ApiCall("callback_query.answer", o))
          /\ at' = IF o # "ok" THEN "except"
                   ELSE IF update.has_message THEN "edit_text" ELSE "send_message"
    /\ UNCHANGED << update, user_row, migratorVars >>

\* lines 95-98: TelegramForbiddenError is a TelegramAPIError
NotifyEditText ==
    /\ at = "edit_text"
    /\ \E o \in Outcomes :
          /\ effects' = Append(effects, ApiCall("message.edit_text", o))
          /\ at' = CASE o = "ok" -> "notified"
                     [] o \in {"TelegramForbiddenError", "TelegramAPIError",
                               "AiogramError"} -> "send_message"
                     [] OTHER -> "except"
    /\ UNCHANGED << update, user_row, migratorVars >>

\* lines 99-102, 104-107 and 109-111
NotifySendMessage ==
    /\ \/ at = "send_message"
       \/ at = "notify" /\ update.kind = "other"
    /\ \E o \in Outcomes :
          /\ effects' = Append(effects, ApiCall("bot.send_message", o))
          /\ at' = IF o = "ok" THEN "notified" ELSE "except"
    /\ UNCHANGED << update, user_row, migratorVars >>

\* as NotifyFailed, but the handler runs when the notification fails
NotifyFailedOpens ==
    /\ at = "except"
    /\ effects' = effects \o
          << Call(IF effects[Len(effects)].outcome = "TelegramForbiddenError"
                  THEN "logging.warning" ELSE "logging.error",
                  "Failed to notify user", "ok"),
             Call("handler", update.kind, "ok") >>
    /\ at' = "returned"
    /\ UNCHANGED << update, user_row, migratorVars >>

\* lines 112 and 121
Notified ==
    /\ at = "notified"
    /\ effects' = Append(effects, Call("logging.info", "notification sent", "ok"))
    /\ at' = "returned"
    /\ UNCHANGED << update, user_row, migratorVars >>

\* lines 113-121: the failure is logged and the middleware returns
NotifyFailed ==
    /\ at = "except"
    /\ effects' = Append(effects,
          Call(IF effects[Len(effects)].outcome = "TelegramForbiddenError"
               THEN "logging.warning" ELSE "logging.error",
               "Failed to notify user", "ok"))
    /\ at' = "returned"
    /\ UNCHANGED << update, user_row, migratorVars >>

\* the database the bot runs on has been migrated
BotSeed == SeedStore(Len(MIGRATIONS), {})

InitTerms ==
    /\ InitMigrator({BotSeed}, {{}})
    /\ update \in Updates
    /\ at = "__call__"
    /\ effects = << >>
    /\ user_row = NoUserRow

NextTerms ==
    \/ PassNoUser
    \/ PassAdmin
    \/ PassStart
    \/ PassTermsCallback
    \/ GetUser
    \/ GetUserRaises
    \/ PassUnknownUser
    \/ PassAccepted
    \/ Block
    \/ NotifyMessage
    \/ NotifyCallbackAnswer
    \/ NotifyEditText
    \/ NotifySendMessage
    \/ Notified
    \/ NotifyFailed

SpecTerms == InitTerms /\ [][NextTerms]_vars

\* ------------------------------------------------ start_command_handler
\* channel ids: settings.REQUIRED_CHANNEL_ID and
\* users.channel_subscription_verified_for
ChannelIds == {"channel_1", "channel_2"}

\* the channel verification a user's row may hold
UserRows ==
    [channel_subscription_verified : BOOLEAN,
     channel_subscription_verified_for : ChannelIds \cup {NoChannel}]

\* a /start message with what the handler finds for it: the start parameter
\* matched by the filters, whether the user row exists, the terms_accepted
\* value of db_user at line 463 and the channel settings; the handler passes
\* the message and its db_user to the channel check
StartUpdates ==
    [kind : {"start"}, event_from_user : UserIds,
     param : {"none", "ref", "promo", "ad"},
     db_user : {"exists", "new"}, terms_accepted : BOOLEAN,
     REQUIRED_CHANNEL_ID : ChannelIds \cup {NoChannel}, has_bot : BOOLEAN,
     event : {"message"}, has_message : {TRUE}, passed : {"db_user"},
     fetch : {"found"},
     DISABLE_WELCOME_MESSAGE : BOOLEAN, i18n : BOOLEAN]

\* a call of ensure_required_channel_subscription by any of its callers: with
\* a message or a callback query, with db_user or None (and then what
\* user_dal.get_user_by_id does at line 164)
ChannelChecks ==
    [kind : {"channel_check"}, event_from_user : UserIds,
     REQUIRED_CHANNEL_ID : ChannelIds \cup {NoChannel}, has_bot : BOOLEAN,
     event : {"message"}, has_message : {TRUE},
     passed : {"db_user", "None"}, fetch : {"raises", "missing", "found"},
     i18n : BOOLEAN]
    \cup
    [kind : {"channel_check"}, event_from_user : UserIds,
     REQUIRED_CHANNEL_ID : ChannelIds \cup {NoChannel}, has_bot : BOOLEAN,
     event : {"callback_query"}, has_message : BOOLEAN,
     passed : {"db_user", "None"}, fetch : {"raises", "missing", "found"},
     i18n : BOOLEAN]

\* line 199
allowed_statuses == {"creator", "administrator", "member", "restricted"}

\* what bot.get_chat_member returns (a status) or raises
ChatMemberOutcomes ==
    allowed_statuses \cup {"left", "kicked"}
    \cup {"TelegramBadRequest", "TelegramForbiddenError", "TelegramAPIError",
          "Exception"}

\* the position after a call of the Telegram API that is not inside a try
AfterCall(o, next) == IF o = "ok" THEN next ELSE "raised"

\* lines 318-354: the state is cleared and the start parameter parsed
ParseStart ==
    /\ at = "start_command_handler"
    /\ effects' = Append(effects, Call("state.clear", update.param, "ok"))
    /\ at' = "get_user"
    /\ UNCHANGED << update, user_row, migratorVars >>

\* lines 356-440: the existing user is updated
UpdateExistingUser ==
    /\ at = "get_user"
    /\ update.db_user = "exists"
    /\ \E o \in {"unchanged", "ok", "Exception"} :
          effects' = Append(effects, Call("update_user", update.event_from_user, o))
    /\ at' = "ad"
    /\ UNCHANGED << update, user_row, migratorVars >>

\* lines 361-408: the user is created; a failure is answered and ends the
\* handler (a failed answer of line 383 is caught at line 402 and answered
\* again at line 407)
CreateUser ==
    /\ at = "get_user"
    /\ update.db_user = "new"
    /\ LET made(o) == Call("create_user", update.event_from_user, o)
           error(a) == Call("message.answer", "error_occurred_processing_request", a)
       IN  \/ /\ effects' = effects \o
                    << made("created"),
                       Call("notify_new_user_registration",
                            update.event_from_user, "ok") >>
              /\ at' = "ad"
           \/ /\ effects' = Append(effects, made("existing"))
              /\ at' = "ad"
           \/ \E a \in Outcomes :
                 /\ effects' = effects \o << made("Exception"), error(a) >>
                 /\ at' = AfterCall(a, "returned")
           \/ /\ effects' = effects \o << made("commit fails"), error("ok") >>
              /\ at' = "returned"
           \/ \E a \in Outcomes \ {"ok"}, b \in Outcomes :
                 /\ effects' = effects \o
                       << made("commit fails"), error(a), error(b) >>
                 /\ at' = AfterCall(b, "returned")
    /\ UNCHANGED << update, user_row, migratorVars >>

\* lines 443-455: attribution to an ad campaign; its failure is logged
AttributeAd ==
    /\ at = "ad"
    /\ \/ /\ update.param = "ad"
          /\ \E o \in {"ok", "no campaign", "Exception"} :
                effects' = Append(effects, Call("ensure_attribution", "ad", o))
       \/ /\ update.param # "ad"
          /\ UNCHANGED effects
    /\ at' = "ensure_required_channel_subscription"
    /\ UNCHANGED << update, user_row, migratorVars >>

\* as ChannelCheckReturns, but the handler goes on whatever the check returns
ChannelCheckIgnored(result, sent) ==
    /\ effects' = effects \o sent \o
          << Call("ensure_required_channel_subscription",
                  update.event_from_user, result) >>
    /\ at' = IF update.kind = "start" THEN "terms" ELSE "returned"
    /\ UNCHANGED << update, migratorVars >>

\* ensure_required_channel_subscription returns result after the calls in
\* sent; in start_command_handler False ends the handler (lines 457-460)
ChannelCheckReturns(result, sent) ==
    /\ effects' = effects \o sent \o
          << Call("ensure_required_channel_subscription",
                  update.event_from_user, result) >>
    /\ at' = IF result = "True" /\ update.kind = "start" THEN "terms" ELSE "returned"
    /\ UNCHANGED << update, migratorVars >>

\* lines 138-140
EnsureNoChannel ==
    /\ at = "ensure_required_channel_subscription"
    /\ update.REQUIRED_CHANNEL_ID = NoChannel
    /\ ChannelCheckReturns("True", << >>)
    /\ UNCHANGED user_row

\* lines 153-157
EnsureNoBot ==
    /\ at = "ensure_required_channel_subscription"
    /\ update.REQUIRED_CHANNEL_ID # NoChannel
    /\ ~update.has_bot
    /\ ChannelCheckReturns("False", << >>)
    /\ UNCHANGED user_row

\* lines 159-160
EnsureAdmin ==
    /\ at = "ensure_required_channel_subscription"
    /\ update.REQUIRED_CHANNEL_ID # NoChannel /\ update.has_bot
    /\ update.event_from_user \in ADMIN_IDS
    /\ ChannelCheckReturns("True", << >>)
    /\ UNCHANGED user_row

\* the tests of lines 139, 153 and 159 have let the call through
PastBypasses ==
    /\ at = "ensure_required_channel_subscription"
    /\ update.REQUIRED_CHANNEL_ID # NoChannel /\ update.has_bot
    /\ update.event_from_user \notin ADMIN_IDS

\* lines 162-174: db_user as passed, or as fetched when None was passed
HasUser == update.passed = "db_user" \/ update.fetch = "found"

\* lines 162-172: None was passed and the lookup raises
EnsureFetchFails ==
    /\ PastBypasses
    /\ update.passed = "None" /\ update.fetch = "raises"
    /\ ChannelCheckReturns("False",
          << Call("get_user_by_id", update.event_from_user, "Exception") >>)
    /\ UNCHANGED user_row

\* lines 162-164 and 174-179: None was passed and the user has no row
EnsureNotPersisted ==
    /\ PastBypasses
    /\ update.passed = "None" /\ update.fetch = "missing"
    /\ ChannelCheckReturns("True",
          << Call("get_user_by_id", update.event_from_user, "None") >>)
    /\ UNCHANGED user_row

\* as Cached, but the channel the verification was stored for is not compared
CachedForAnyChannel(row, required_channel_id) ==
    row.channel_subscription_verified

\* lines 181-183
Cached(row, required_channel_id) ==
    /\ row.channel_subscription_verified
    /\ row.channel_subscription_verified_for = required_channel_id

\* lines 181-184
EnsureVerified ==
    /\ PastBypasses
    /\ HasUser
    /\ Cached(user_row, update.REQUIRED_CHANNEL_ID)
    /\ ChannelCheckReturns("True", << >>)
    /\ UNCHANGED user_row

\* lines 213-226 and 234-247: the failure text is sent; only the answer to
\* a message is outside a try
CheckFailedAnswers ==
    LET text == "channel_subscription_check_failed"
    IN  IF update.event = "callback_query"
        THEN {<< Call("callback_query.answer", text, a) >>
                 \o (IF update.has_message
                     THEN << Call("message.answer", text, b) >> ELSE << >>) :
                 a \in Outcomes, b \in Outcomes}
        ELSE {<< Call("message.answer", text, a) >> : a \in Outcomes}

\* an answer outside a try has raised
Raises(sent) ==
    update.event = "message" /\ sent[Len(sent)].outcome # "ok"

\* lines 191-247: the membership is asked from Telegram
GetChatMember ==
    /\ PastBypasses
    /\ HasUser
    /\ ~Cached(user_row, update.REQUIRED_CHANNEL_ID)
    /\ UNCHANGED user_row
    /\ \E o \in ChatMemberOutcomes :
          LET asked == Call("bot.get_chat_member", update.REQUIRED_CHANNEL_ID, o)
          IN  CASE o \in {"TelegramForbiddenError", "TelegramAPIError"} ->
                     \E answers \in CheckFailedAnswers :
                        IF Raises(answers)
                        THEN /\ effects' = effects \o << asked >> \o answers
                             /\ at' = "raised"
                             /\ UNCHANGED << update, migratorVars >>
                        ELSE ChannelCheckReturns("False", << asked >> \o answers)
                [] o = "Exception" ->
                     /\ effects' = Append(effects, asked)
                     /\ at' = "raised"
                     /\ UNCHANGED << update, migratorVars >>
                [] OTHER ->
                     /\ effects' = Append(effects, asked)
                     /\ at' = "update_user"
                     /\ UNCHANGED << update, migratorVars >>

\* line 200, read back from the answer of get_chat_member
is_member == effects[Len(effects)].outcome \in allowed_statuses

\* lines 249-253
update_payload ==
    [channel_subscription_verified |-> is_member,
     channel_subscription_verified_for |-> update.REQUIRED_CHANNEL_ID]

\* as Persisted, but the row keeps the channel it was verified for
PersistedFlagOnly(o) ==
    IF o = "ok"
    THEN [user_row EXCEPT !.channel_subscription_verified = is_member]
    ELSE user_row

\* lines 254-262: the row after user_dal.update_user, which may raise
Persisted(o) == IF o = "ok" THEN update_payload ELSE user_row

\* lines 249-271: the result is stored; a member passes
PersistMember ==
    /\ at = "update_user"
    /\ is_member
    /\ \E o \in {"ok", "Exception"} :
          /\ user_row' = Persisted(o)
          /\ ChannelCheckReturns("True",
                << Call("update_user", "channel_subscription_verified", o) >>)

\* lines 273-300: the prompt to subscribe; only the answer to a message is
\* outside a try
PromptAnswers ==
    LET text == "channel_subscription_required"
    IN  IF update.event = "callback_query"
        THEN {(IF update.i18n /\ update.has_message
               THEN << Call("message.edit_text", text, e) >> ELSE << >>)
              \o (IF ~update.i18n /\ update.has_message
                  THEN << Call("message.answer", text, e) >> ELSE << >>)
              \o << Call("callback_query.answer", text, a) >> :
                 e \in Outcomes, a \in Outcomes}
        ELSE {<< Call("message.answer", text, a) >> : a \in Outcomes}

\* lines 249-262 and 273-302: the result is stored; another user is prompted
\* to subscribe
PromptSubscription ==
    /\ at = "update_user"
    /\ ~is_member
    /\ \E o \in {"ok", "Exception"}, answers \in PromptAnswers :
          LET sent == << Call("update_user", "channel_subscription_verified", o) >>
                      \o answers
          IN  /\ user_row' = Persisted(o)
              /\ IF Raises(answers)
                 THEN /\ effects' = effects \o sent
                      /\ at' = "raised"
                      /\ UNCHANGED << update, migratorVars >>
                 ELSE ChannelCheckReturns("False", sent)

\* line 475
promo_code_to_apply == update.param = "promo"

\* as TermsPrompt, but without the return of line 468
TermsPromptContinues ==
    /\ at = "terms"
    /\ ~update.terms_accepted
    /\ \E a \in Outcomes :
          /\ effects' = Append(effects,
                Call("message.answer", "terms_acceptance_required", a))
          /\ at' = AfterCall(a, IF promo_code_to_apply THEN "promo" ELSE "menu")
    /\ UNCHANGED << update, user_row, migratorVars >>

\* lines 463-468
TermsPrompt ==
    /\ at = "terms"
    /\ ~update.terms_accepted
    /\ \E a \in Outcomes :
          /\ effects' = Append(effects,
                Call("message.answer", "terms_acceptance_required", a))
          /\ at' = AfterCall(a, "returned")
    /\ UNCHANGED << update, user_row, migratorVars >>

\* lines 463 and 471-475
Welcome ==
    /\ at = "terms"
    /\ update.terms_accepted
    /\ \/ /\ ~update.DISABLE_WELCOME_MESSAGE
          /\ \E a \in Outcomes :
                /\ effects' = Append(effects, Call("message.answer", "welcome", a))
                /\ at' = AfterCall(a, IF promo_code_to_apply THEN "promo" ELSE "menu")
       \/ /\ update.DISABLE_WELCOME_MESSAGE
          /\ UNCHANGED effects
          /\ at' = IF promo_code_to_apply THEN "promo" ELSE "menu"
    /\ UNCHANGED << update, user_row, migratorVars >>

\* lines 475-517
ApplyPromo ==
    /\ at = "promo"
    /\ \E r \in {"success", "failure", "Exception"} :
          LET applied == Call("apply_promo_code", update.event_from_user, r)
              rollback == Call("session.rollback", "promo", "ok")
          IN  IF r = "success"
              THEN \E a \in Outcomes :
                      LET sent == << applied, Call("session.commit", "promo", "ok"),
                                     Call("message.answer",
                                          "promo_code_applied_success_full", a) >>
                      IN  IF a = "ok"
                          THEN effects' = effects \o sent /\ at' = "returned"
                          ELSE effects' = effects \o sent \o << rollback >>
                               /\ at' = "menu"
              ELSE /\ effects' = effects \o << applied, rollback >>
                   /\ at' = "menu"
    /\ UNCHANGED << update, user_row, migratorVars >>

\* lines 519-524
SendMainMenu ==
    /\ at = "menu"
    /\ \E a \in Outcomes :
          /\ effects' = Append(effects, Call("send_main_menu", "is_edit=False", a))
          /\ at' = AfterCall(a, "returned")
    /\ UNCHANGED << update, user_row, migratorVars >>

InitStart ==
    /\ InitMigrator({BotSeed}, {{}})
    /\ update \in StartUpdates
    /\ at = "start_command_handler"
    /\ effects = << >>
    /\ user_row \in UserRows

NextStart ==
    \/ ParseStart
    \/ UpdateExistingUser
    \/ CreateUser
    \/ AttributeAd
    \/ EnsureNoChannel
    \/ EnsureNoBot
    \/ EnsureAdmin
    \/ EnsureVerified
    \/ GetChatMember
    \/ PersistMember
    \/ PromptSubscription
    \/ TermsPrompt
    \/ Welcome
    \/ ApplyPromo
    \/ SendMainMenu

SpecStart == InitStart /\ [][NextStart]_vars

\* ensure_required_channel_subscription called by any of its callers
InitChannel ==
    /\ InitMigrator({BotSeed}, {{}})
    /\ update \in ChannelChecks
    /\ at = "ensure_required_channel_subscription"
    /\ effects = << >>
    /\ user_row \in UserRows

NextChannel ==
    \/ EnsureNoChannel
    \/ EnsureNoBot
    \/ EnsureAdmin
    \/ EnsureFetchFails
    \/ EnsureNotPersisted
    \/ EnsureVerified
    \/ GetChatMember
    \/ PersistMember
    \/ PromptSubscription

SpecChannel == InitChannel /\ [][NextChannel]_vars

TypeOK ==
    /\ \A p \in Procs : pc[p] \in Running \cup Terminal \cup {"Idle", "Crashed"}
    /\ \A p \in Procs : idx[p] \in 0..(Len(MIGRATIONS) + 1)
    /\ \A p \in Procs : pc[p] \notin {"Applying", "Upgrading", "Recorded"} => sp[p] = NoChanges

\* ------------------------------------------------------------------ claims
P1 == "p1"
History(p) == RowIds(Visible(p).history)
RowsOf(rows, i) == {r \in rows : r.id = i}
FailedAt(p) == IF pc[p] = "Failed" /\ idx[p] >= 1 /\ ended[p] = "open" THEN idx[p] ELSE 0
OwnRows(p, ids) == {HistoryRow(i, p, runs[p]) : i \in ids}

\* C1: run twice in sequence against a fresh store, the first run leaves
\* History = all ids of the registry; the second run invokes no upgrade,
\* executes no statement, writes no history row, raises nothing and leaves the
\* history rows as they were.
C1_SecondRun ==
    /\ seed = FreshStore /\ runs[P1] = 2 /\ prev[P1].pc = "Completed"
    /\ prev[P1].ended # "rolledback"
C1_IdempotentFullRun ==
    /\ (seed = FreshStore /\ runs[P1] = 1 /\ pc[P1] = "Completed" /\ ended[P1] # "rolledback")
          => History(P1) = Ids
    /\ C1_SecondRun =>
          /\ pc[P1] # "Failed" /\ raised[P1] = NoException
          /\ invoked[P1] = << >> /\ executed[P1] = 0 /\ writes[P1] = << >>
          /\ RowIds(startRows[P1]) = Ids
          /\ ended[P1] # "rolledback" => Visible(P1).history = startRows[P1]
C1_Witness == C1_SecondRun /\ pc[P1] = "Completed"

\* C2: when the descriptor at position k fails, History after the run is the
\* ids applied before the run plus the ids at positions below k; id k and the
\* ids at later positions have no row.
C2_PartialFailurePrefix ==
    LET k == FailedAt(P1) IN
    k > 0 => /\ History(P1) = applied_revisions[P1] \cup IdsBefore(k)
             /\ History(P1) \cap IdsFrom(k) = {}
C2_Witness ==
    /\ FailedAt(P1) = 4 /\ applied_revisions[P1] = IdsBefore(2)
    /\ History(P1) = IdsBefore(4)

\* C3: when descriptor k fails, the rows and the schema changes of the
\* descriptors that committed earlier in this run or before it are still in
\* place when the run has ended.
C3_EarlierWorkSurvives ==
    LET k == FailedAt(P1) IN
    k > 0 => /\ tx[P1] = scope[P1]
             /\ startRows[P1] \subseteq Visible(P1).history
             /\ OwnRows(P1, IdsBefore(k) \ applied_revisions[P1]) \subseteq tx[P1].history
             /\ ColumnsAfter(k - 1) \subseteq Visible(P1).columns
             /\ IndexAfter(k - 1) => Visible(P1).index
C3_Witness ==
    /\ FailedAt(P1) = 4 /\ runs[P1] = 2 /\ applied_revisions[P1] = IdsBefore(2)
    /\ seed = FreshStore

\* C5: the changes of an upgrade and its history row commit together or not
\* at all: a descriptor that failed has no row and none of the changes of the
\* failed attempt, and a row enters the transaction exactly once, together
\* with the changes of its upgrade, when the savepoint is released.
C5_FailedLeavesNothing ==
    LET k == FailedAt(P1) IN
    k > 0 => /\ MIGRATIONS[k].id \notin History(P1)
             /\ sp[P1] = NoChanges
             /\ Visible(P1) = Merge(store, scope[P1])
C5_RowWithChanges ==
    tx'[P1].history # tx[P1].history /\ tx'[P1] # NoChanges =>
        /\ pc[P1] = "Recorded" /\ sp'[P1] = NoChanges
        /\ tx'[P1] = Merge(tx[P1], sp[P1])
        /\ tx'[P1].history \ tx[P1].history = OwnRows(P1, {Current(P1).id})
        /\ Current(P1).id \notin RowIds(Merge(store, tx[P1]).history)
C5_ApplyAndRecordAtomic == [](C5_FailedLeavesNothing) /\ [][C5_RowWithChanges]_vars
C5_Witness ==
    /\ FailedAt(P1) = 1 /\ executed[P1] = 2 /\ seed = FreshStore

\* C4: after a run failed at descriptor k and the body of k was fixed, the
\* next run invokes no upgrade and executes no statement for the descriptors
\* before k, applies k and the later ones in order, and ends with
\* History = all ids; it fails only where a body still raises.
C4_Resumed ==
    /\ prev[P1].pc = "Failed" /\ prev[P1].idx >= 1 /\ prev[P1].ended # "rolledback"
    /\ pc[P1] \in Running \cup Terminal
C4_Resumability ==
    C4_Resumed =>
        /\ pc[P1] = "Failed" =>
              raised[P1].type = "UpgradeError" /\ idx[P1] >= prev[P1].idx
        /\ Len(invoked[P1]) <= Len(MIGRATIONS) - prev[P1].idx + 1
        /\ \A j \in 1..Len(invoked[P1]) :
              invoked[P1][j] = MIGRATIONS[prev[P1].idx + j - 1].id
        /\ invoked[P1] = << >> => executed[P1] = 0 /\ writes[P1] = << >>
        /\ pc[P1] = "Completed" =>
              /\ Len(invoked[P1]) = Len(MIGRATIONS) - prev[P1].idx + 1
              /\ writes[P1] = invoked[P1]
              /\ ended[P1] # "rolledback" => History(P1) = Ids
C4_Witness ==
    C4_Resumed /\ pc[P1] = "Completed" /\ prev[P1].idx = 3 /\ ended[P1] = "committed"

\* C6: when two processes race for the same pending id, the process that
\* loses fails with the uniqueness violation of record(id) and with no other
\* error.
AllRows == store.history \cup UNION {Uncommitted(p).history : p \in Procs}
LostRace(p) ==
    /\ pc[p] = "Failed" /\ idx[p] >= 1
    /\ \E r \in AllRows : r.id = Current(p).id /\ r.by \in Procs \ {p}
C6_LoserGetsUniqueViolation ==
    \A p \in Procs :
        LostRace(p) =>
            /\ raised[p].type = "UniqueViolation"
            /\ writes[p] # << >> /\ writes[p][Len(writes[p])] = Current(p).id

\* C7: two processes run concurrently against the same fresh store; once both
\* runs have ended (and no caller rolled a completed run back) every id of the
\* registry has exactly one history row.
BothEnded == \A p \in Procs : runs[p] = 1 /\ pc[p] \in Terminal
C7_Case ==
    /\ seed = FreshStore /\ BothEnded
    /\ \A p \in Procs : ~(pc[p] = "Completed" /\ ended[p] = "rolledback")
C7_RaceEndState ==
    C7_Case => \A i \in Ids : Cardinality(RowsOf(AllRows, i)) = 1
C7_Witness ==
    /\ C7_Case
    /\ \E p \in Procs : pc[p] = "Failed"
    /\ \E p \in Procs : pc[p] = "Completed" /\ ended[p] = "committed"

\* C8: the history table never holds two rows for one id, whatever runs
\* follow or overlap each other; an insert for an id that has a row fails
\* with an error and adds no row.
C8_AtMostOneRow == \A i \in Ids : Cardinality(RowsOf(AllRows, i)) <= 1
C8_SecondInsert ==
    \A p \in Procs :
        (pc[p] = "Upgrading" /\ writes'[p] = Append(writes[p], Current(p).id)
            /\ Current(p).id \in RowIds(Visible(p).history)) =>
            /\ pc'[p] = "Failed" /\ raised'[p].type = "UniqueViolation"
            /\ AllRows' = AllRows
C8_HistoryUnique == [](C8_AtMostOneRow) /\ [][C8_SecondInsert]_vars
C8_Witness ==
    \E p \in Procs :
        /\ pc[p] = "Failed" /\ idx[p] >= 1 /\ raised[p].type = "UniqueViolation"
        /\ Cardinality(RowsOf(AllRows, Current(p).id)) = 1

\* C9: after a process died during a run, the next run treats exactly the ids
\* without a history row as pending, fails only where an upgrade body raises
\* by itself, and when it completes every id has a row and the schema is the
\* one a run that never crashed produces.
C9_AfterCrash == prev[P1].pc = "Crashed" /\ pc[P1] \in Running \cup Terminal
C9_CrashRecovery ==
    C9_AfterCrash =>
        /\ idx[P1] >= 1 => applied_revisions[P1] = RowIds(startRows[P1])
        /\ \A j \in 1..Len(invoked[P1]) : invoked[P1][j] \notin RowIds(startRows[P1])
        /\ pc[P1] = "Failed" => raised[P1].type = "UpgradeError"
        /\ (pc[P1] = "Completed" /\ ended[P1] # "rolledback") =>
              /\ History(P1) = Ids
              /\ Visible(P1).columns = seed.columns \cup AllColumns
              /\ Visible(P1).index
C9_Witness ==
    /\ C9_AfterCrash /\ prev[P1].idx = 3 /\ pc[P1] = "Completed"
    /\ seed = FreshStore /\ Len(invoked[P1]) = Len(MIGRATIONS)

\* C10 (as claimed): every failure of a run reaches the caller as a
\* MigrationFailure that carries the id and the description of the failing
\* descriptor and the cause.
Causes == {"UpgradeError", "DuplicateColumn", "UndefinedColumn", "UniqueViolation",
           "DeadlockDetected"}
MigrationFailure(m, cause) ==
    [type |-> "MigrationFailure", id |-> m.id, description |-> m.description,
     cause |-> cause]
C10_SurfacesAsMigrationFailure ==
    \A p \in Procs :
        (pc[p] = "Failed" /\ idx[p] >= 1) =>
            \E c \in Causes : raised[p] = MigrationFailure(Current(p), c)

\* C10 (amended): the exception of an upgrade or of record(id) leaves the run
\* as it was raised, carrying neither id nor description; the id and the
\* description are in the error record logged before the re-raise; an
\* exception of the bookkeeping statements before the loop leaves unlogged;
\* no exception is swallowed: a run with an error record has failed, and a
\* completed run recorded every upgrade it invoked.
HasError(p) == \E j \in 1..Len(log[p]) : log[p][j].level = "error"
C10_ReRaisedAndLogged ==
    \A p \in Procs :
        /\ (pc[p] = "Failed" /\ idx[p] >= 1) =>
              /\ raised[p] \in {Exception(c) : c \in Causes}
              /\ raised[p].type = "UniqueViolation" <=> Len(writes[p]) = Len(invoked[p])
              /\ log[p][Len(log[p])] =
                    [level |-> "error", msg |-> "failed to apply",
                     id |-> MIGRATIONS[idx[p]].id,
                     description |-> MIGRATIONS[idx[p]].description]
        /\ (pc[p] = "Failed" /\ idx[p] = 0) =>
              raised[p] \in {Exception(c) : c \in Causes} /\ log[p] = << >>
        /\ HasError(p) => pc[p] = "Failed" /\ raised[p] # NoException
        /\ pc[p] = "Completed" => raised[p] = NoException /\ writes[p] = invoked[p]
C10_Witness ==
    \E p \in Procs :
        /\ pc[p] = "Failed" /\ idx[p] = 2 /\ raised[p].type = "UniqueViolation"
        /\ executed[p] = 2

\* C11: stop on first failure. When the upgrade or the record of the descriptor
\* at position k raises, the savepoint is rolled back (the transaction is as
\* it was when the scope opened), the failure is logged once, as the last
\* record, with the id and the description of that descriptor, the exception
\* leaves the run, and no descriptor after k is invoked or recorded in that
\* run, neither before the failure nor while the run stays failed.
Range(s) == {s[j] : j \in 1..Len(s)}
ErrorRecords(p) == {j \in 1..Len(log[p]) : log[p][j].level = "error"}
C11_AtFailure ==
    \A p \in Procs :
        /\ (pc[p] = "Failed" /\ idx[p] >= 1) =>
              /\ sp[p] = NoChanges
              /\ ended[p] = "open" => tx[p] = scope[p]
              /\ ErrorRecords(p) = {Len(log[p])}
              /\ log[p][Len(log[p])].id = Current(p).id
              /\ log[p][Len(log[p])].description = Current(p).description
              /\ raised[p] # NoException
              /\ invoked[p][Len(invoked[p])] = Current(p).id
              /\ (Range(invoked[p]) \cup Range(writes[p])) \cap IdsFrom(idx[p] + 1) = {}
              /\ OwnRows(p, IdsFrom(idx[p])) \cap Visible(p).history = {}
        /\ ErrorRecords(p) # {} => pc[p] = "Failed"
C11_StaysStopped ==
    \A p \in Procs :
        (pc[p] = "Failed" /\ pc'[p] = "Failed") =>
            /\ invoked'[p] = invoked[p] /\ writes'[p] = writes[p]
            /\ executed'[p] = executed[p] /\ log'[p] = log[p]
C11_StopOnFirstFailure == [](C11_AtFailure) /\ [][C11_StaysStopped]_vars
C11_Witness ==
    /\ seed = FreshStore /\ pc[P1] = "Failed" /\ idx[P1] = 2
    /\ raised[P1].type = "UpgradeError" /\ Len(invoked[P1]) = 2
    /\ writes[P1] = << MIGRATIONS[1].id >>

\* C12: when a run returns normally, every id of the registry has a history
\* row in the connection's view: each id was either found applied when the
\* run loaded the history or recorded by this run, and has exactly one row.
C12_CompletedHasAllRows ==
    \A p \in Procs :
        (pc[p] = "Completed" /\ ended[p] # "rolledback") =>
            /\ History(p) = Ids
            /\ \A i \in Ids :
                  /\ Cardinality(RowsOf(Visible(p).history, i)) = 1
                  /\ i \in applied_revisions[p] \/ i \in Range(writes[p])
C12_Witness ==
    \E p \in Procs :
        /\ pc[p] = "Completed" /\ ended[p] # "rolledback"
        /\ applied_revisions[p] = IdsBefore(2) /\ Len(writes[p]) = 3
        /\ \A q \in Procs : runs[q] >= 1

\* C16: timestamp order. In every reachable state of the store, for any two
\* registry positions i < j whose ids both have a committed history row, the
\* applied_at of the row of i is not later than the applied_at of the row of j.
C16_TimestampOrder ==
    \A i \in Positions : \A j \in Positions :
        i < j =>
            \A r \in RowsOf(store.history, MIGRATIONS[i].id) :
                \A s \in RowsOf(store.history, MIGRATIONS[j].id) :
                    r.applied_at <= s.applied_at

\* C14: a failure to create or to read the bookkeeping table ends the run
\* before any descriptor is attempted: the exception leaves the run, the run
\* does not go on, no upgrade was invoked, no statement of an upgrade was
\* executed, no record was attempted and no history row of that run exists.
RowsOfRun(p) == {r \in AllRows : r.by = p /\ r.run = runs[p]}
C14_BookkeepingFailureIsFatal ==
    \A p \in Procs :
        /\ (pc[p] = "Failed" /\ idx[p] = 0) =>
              /\ raised[p] # NoException
              /\ invoked[p] = << >> /\ executed[p] = 0 /\ writes[p] = << >>
              /\ RowsOfRun(p) = {}
              /\ applied_revisions[p] = {}
        /\ aborted[p] => pc[p] = "Failed" /\ idx[p] = 0
C14_Witness ==
    \E p \in Procs :
        /\ pc[p] = "Failed" /\ idx[p] = 0 /\ raised[p].type = "OperationalError"
        /\ tx[p].table
        /\ \E q \in Procs : pc[q] = "WaitTable"

\* C15: ensureExists is safe to race. For every interleaving of two processes
\* calling _ensure_migrations_table against the same store, neither call
\* raises, and after a call the table exists and holds the rows the store
\* started with.
C15_EnsureSafeToRace ==
    \A p \in Procs :
        /\ ~(pc[p] = "Failed" /\ idx[p] = 0)
        /\ pc[p] = "LoadingHistory" =>
              Visible(p).table /\ seed.history \subseteq Visible(p).history

\* C17: in every reachable state the ids of the history rows, committed or
\* not, form a subset of the ids of the registry, and a row written by a run
\* carries the id of a descriptor that run attempted to record.
C17_HistorySubsetOfRegistry ==
    /\ RowIds(AllRows) \subseteq Ids
    /\ \A p \in Procs : RowIds(RowsOfRun(p)) \subseteq Range(writes[p])
C17_Witness ==
    /\ \E r \in store.history : r.by \in Procs
    /\ RowIds(store.history) = Ids
    /\ \E p \in Procs :
          pc[p] = "Failed" /\ idx[p] >= 1 /\ raised[p].type = "UniqueViolation"

\* C18: history rows are immutable and never deleted by the engine. No step
\* removes or alters a committed row, and no step of a run, successful or
\* failed, removes or alters a row its connection sees: the rows a connection
\* sees only grow, until the caller rolls its transaction back or the
\* process dies.
RolledBackNow(p) == ended'[p] = "rolledback" /\ ended[p] # "rolledback"
C18_RowsOnlyGrow ==
    /\ store.history \subseteq store'.history
    /\ \A p \in Procs :
          RolledBackNow(p) \/ Visible(p).history \subseteq Visible(p)'.history
C18_RowsImmutable == [][C18_RowsOnlyGrow]_vars
C18_Witness ==
    /\ pc[P1] = "Failed" /\ idx[P1] = 3 /\ ended[P1] = "open"
    /\ RowIds(tx[P1].history) = IdsBefore(3)
    /\ prev[P1].pc = "Failed" /\ prev[P1].ended = "open"

\* C19: schema equivalence. A completed application of the registry leaves
\* the same columns and the same index on users whether the store was fresh
\* or already held the history rows of a prefix of the registry together
\* with the schema that prefix produces.
Schema(s) == [columns |-> s.columns, index |-> s.index]
FullSchema == [columns |-> ColumnsAfter(Len(MIGRATIONS)), index |-> IndexAfter(Len(MIGRATIONS))]
C19_SchemaEquivalence ==
    (seed \in PrefixSeeds /\ pc[P1] = "Completed" /\ ended[P1] # "rolledback") =>
        Schema(Visible(P1)) = FullSchema
C19_Witness ==
    /\ seed = SeedStore(2, {}) /\ pc[P1] = "Completed" /\ ended[P1] = "committed"
    /\ runs[P1] = 1 /\ Len(writes[P1]) = 2 /\ executed[P1] = 4

PositionOf(i) == CHOOSE k \in Positions : MIGRATIONS[k].id = i
C21_StrictRegistryOrder ==
    \A p \in Procs :
        /\ \A a \in 1..Len(invoked[p]) : \A b \in 1..Len(invoked[p]) :
              a < b => PositionOf(invoked[p][a]) < PositionOf(invoked[p][b])
        /\ pc[p] \in {"Upgrading", "Recorded"} =>
              /\ invoked[p][Len(invoked[p])] = MIGRATIONS[idx[p]].id
              /\ \A k \in 1..(idx[p] - 1) :
                    \/ MIGRATIONS[k].id \in applied_revisions[p]
                    \/ HistoryRow(MIGRATIONS[k].id, p, runs[p]) \in tx[p].history
              /\ RowIds(sp[p].history) \subseteq {MIGRATIONS[idx[p]].id}
C21_Witness ==
    /\ pc[P1] = "Upgrading" /\ idx[P1] = 4 /\ Len(invoked[P1]) = 3
    /\ applied_revisions[P1] = IdsBefore(2)

\* C22: skip of applied descriptors. Whatever the history held when the run
\* loaded it, a prefix of the registry or not, a descriptor whose id is in
\* the loaded set is passed over: its upgrade is not invoked, no savepoint is
\* opened for it (nothing is logged for it), no statement is executed, no
\* record is attempted and the run writes no row for it.
LoggedIds(p) == {log[p][j].id : j \in 1..Len(log[p])}
C22_NothingForApplied ==
    \A p \in Procs :
        /\ (Range(invoked[p]) \cup Range(writes[p]) \cup LoggedIds(p)
               \cup RowIds(RowsOfRun(p))) \cap applied_revisions[p] = {}
        /\ pc[p] \in {"Applying", "Upgrading", "Recorded"} =>
              MIGRATIONS[idx[p]].id \notin applied_revisions[p]
C22_SkipStep ==
    \A p \in Procs :
        (/\ pc[p] = "Iterating" /\ idx[p] \in Positions
         /\ MIGRATIONS[idx[p]].id \in applied_revisions[p]
         /\ idx'[p] # idx[p]) =>
            /\ idx'[p] = idx[p] + 1 /\ pc'[p] = "Iterating"
            /\ executed'[p] = executed[p] /\ invoked'[p] = invoked[p]
            /\ writes'[p] = writes[p] /\ log'[p] = log[p]
            /\ tx'[p] = tx[p] /\ sp'[p] = sp[p] /\ store' = store
C22_SkipApplied == [](C22_NothingForApplied) /\ [][C22_SkipStep]_vars
C22_Witness ==
    /\ RowIds(seed.history) = {MIGRATIONS[1].id, MIGRATIONS[3].id}
    /\ seed.columns = {}
    /\ pc[P1] = "Completed" /\ runs[P1] = 1
    /\ invoked[P1] = << MIGRATIONS[2].id, MIGRATIONS[4].id >>

\* C23 (as claimed): the applied set is loaded once per run and not refreshed;
\* an id another process recorded after this run's load is still treated as
\* pending by this run, which invokes its upgrade and attempts record(id).
StaleAt(p, k) ==
    /\ MIGRATIONS[k].id \notin applied_revisions[p]
    /\ \E r \in RowsOf(store.history, MIGRATIONS[k].id) : r.by \in Procs \ {p}
C23_LoadOnceStep ==
    \A p \in Procs :
        applied_revisions'[p] # applied_revisions[p] =>
            \/ pc[p] = "LoadingHistory" /\ pc'[p] = "Iterating" /\ idx'[p] = 1
            \/ pc'[p] = "EnsuringStore" /\ applied_revisions'[p] = {}
C23_LoadedAfterEnsure ==
    \A p \in Procs :
        pc[p] = "LoadingHistory" =>
            Visible(p).table /\ invoked[p] = << >> /\ applied_revisions[p] = {}
C23_StaleIsPending ==
    \A p \in Procs :
        (/\ pc[p] = "Iterating" /\ idx[p] \in Positions /\ StaleAt(p, idx[p])
         /\ << pc'[p], idx'[p] >> # << pc[p], idx[p] >>) =>
            pc'[p] = "Applying" /\ idx'[p] = idx[p]
C23_StaleRecordAttempted ==
    \A p \in Procs :
        (pc[p] = "Upgrading" /\ StaleAt(p, idx[p]) /\ pc'[p] # "Upgrading") =>
            /\ MIGRATIONS[idx[p]].id \in Range(invoked[p])
            /\ writes'[p] = Append(writes[p], MIGRATIONS[idx[p]].id)
C23_StaleUpgradeInvoked ==
    \A p \in Procs :
        (pc[p] = "Upgrading" /\ StaleAt(p, idx[p]) /\ pc'[p] # "Upgrading") =>
            /\ MIGRATIONS[idx[p]].id \in Range(invoked[p])
            /\ pc'[p] = "Failed" /\ idx'[p] = idx[p]
            /\ \/ /\ writes'[p] = Append(writes[p], MIGRATIONS[idx[p]].id)
                  /\ raised'[p].type = "UniqueViolation"
               \/ /\ writes'[p] = writes[p]
                  /\ raised'[p].type \in {"DuplicateColumn", "DeadlockDetected"}
NoDuplicates(s) == \A a \in 1..Len(s) : \A b \in 1..Len(s) : s[a] = s[b] => a = b
C24_AtMostOnce ==
    \A p \in Procs :
        /\ NoDuplicates(invoked[p]) /\ NoDuplicates(writes[p])
        /\ Len(writes[p]) <= Len(invoked[p])
        /\ ErrorRecords(p) # {} => pc[p] = "Failed"
C24_FailedRunEnds ==
    \A p \in Procs :
        (pc[p] = "Failed" /\ pc'[p] # pc[p]) =>
            pc'[p] = "EnsuringStore" /\ runs'[p] = runs[p] + 1
C24_NoAutomaticRetry == [](C24_AtMostOnce) /\ [][C24_FailedRunEnds]_vars
C24_Witness ==
    /\ pc[P1] = "Failed" /\ idx[P1] = 3 /\ raised[P1].type = "UpgradeError"
    /\ Len(invoked[P1]) = 3 /\ Len(writes[P1]) = 2

\* C25: termination. Where every invoked upgrade body returns or raises and
\* the process is not killed, every run eventually reaches Completed or
\* Failed, and it has opened at most one savepoint per descriptor of the
\* registry by then.
ScopesOpened(p) == {j \in 1..Len(log[p]) : log[p][j].msg = "applying"}
C25_OneScopePerDescriptor ==
    /\ Cardinality(ScopesOpened(P1)) <= Len(MIGRATIONS)
    /\ \A a \in ScopesOpened(P1) : \A b \in ScopesOpened(P1) :
          log[P1][a].id = log[P1][b].id => a = b
C25_Termination ==
    /\ [](C25_OneScopePerDescriptor)
    /\ (pc[P1] \in Running) ~> (pc[P1] \in Terminal)
C25_Witness ==
    /\ pc[P1] = "Failed" /\ idx[P1] = 4 /\ runs[P1] = 1
    /\ Cardinality(ScopesOpened(P1)) = 4

\* C26: run_database_migrations never commits and never rolls back the
\* caller's transaction. While a run is in progress the committed store does
\* not change and the changes of the enclosing transaction are only added
\* to; the run touches the connection by opening a savepoint and releasing
\* it into the transaction or rolling it back. The store changes only when a
\* caller commits, and what a run recorded is in the transaction, not in the
\* store, until then.
Contains(a, b) == Merge(a, b) = a
Moves(p) ==
    << pc'[p], idx'[p], statements'[p], tx'[p], sp'[p], aborted'[p] >>
        # << pc[p], idx[p], statements[p], tx[p], sp[p], aborted[p] >>
C26_RunStep ==
    \A p \in Procs :
        (pc[p] \in Running /\ pc'[p] # "Crashed" /\ Moves(p)) =>
            /\ store' = store
            /\ ended'[p] = "open" /\ ended[p] = "open"
            /\ Contains(tx'[p], tx[p])
            /\ \/ tx'[p] = tx[p]
               \/ pc[p] = "Recorded" /\ tx'[p] = Merge(tx[p], sp[p]) /\ sp'[p] = NoChanges
               \/ pc[p] \in {"EnsuringStore", "WaitTable"} /\ tx'[p] = [tx[p] EXCEPT !.table = TRUE]
C26_OnlyCallerCommits ==
    store' # store =>
        \E p \in Procs : pc[p] \in Terminal /\ ended[p] = "open" /\ ended'[p] = "committed"
C26_UncommittedAtReturn ==
    \A p \in Procs :
        (pc[p] \in Terminal /\ ended[p] = "open") =>
            /\ RowsOfRun(p) \cap store.history = {}
            /\ RowsOfRun(p) \subseteq tx[p].history
            /\ sp[p] = NoChanges
C26_CallerOwnsTransaction ==
    [](C26_UncommittedAtReturn) /\ [][C26_RunStep /\ C26_OnlyCallerCommits]_vars
C26_Witness ==
    /\ pc[P1] = "Failed" /\ idx[P1] = 3 /\ ended[P1] = "open"
    /\ RowIds(RowsOfRun(P1)) = IdsBefore(3) /\ store = seed
    /\ seed = FreshStore

\* C27: history is prefix-closed. Starting from an empty history, after any
\* sequence of sequential runs, each of which may fail at any descriptor, be
\* committed, rolled back or killed, the ids of the committed rows and the
\* ids of the rows the connection sees always form a prefix of the registry:
\* no id is recorded while an id at an earlier position is unrecorded.
IsPrefix(ids) == \E k \in 0..Len(MIGRATIONS) : ids = IdsBefore(k + 1)
C27_HistoryPrefixClosed ==
    /\ IsPrefix(RowIds(store.history))
    /\ IsPrefix(History(P1))
C27_Witness ==
    /\ RowIds(store.history) = IdsBefore(3) /\ History(P1) = IdsBefore(4)
    /\ runs[P1] = 2 /\ prev[P1].pc = "Failed" /\ prev[P1].idx = 3
    /\ pc[P1] = "Recorded"


\* ---------------------------------------------------------------- C28
\* the first Len(prefix) characters of an Optional[str], compared one by one
HasPrefix(s, prefix) ==
    /\ ~s.isNone
    /\ Len(s.chars) >= Len(prefix)
    /\ \A j \in 1..Len(prefix) : s.chars[j] = prefix[j]

C28_Exempt ==
    \/ update.kind = "message" /\ HasPrefix(update.text, << "/", "s", "t", "a", "r", "t" >>)
    \/ update.kind = "callback_query"
          /\ HasPrefix(update.data, << "t", "e", "r", "m", "s", ":" >>)

C28_UnacceptedUser ==
    /\ update.kind # "none"
    /\ update.event_from_user # NoUser
    /\ update.event_from_user \notin ADMIN_IDS
    /\ update.lookup = "found"
    /\ ~update.terms_accepted

\* C28: for an update of a user outside ADMIN_IDS whom the lookup finds with
\* terms_accepted false, the middleware never calls the downstream handler
\* unless the update is a message whose text starts with "/start" or a
\* callback query whose data starts with "terms:"; every other such update
\* ends with the middleware returned and the handler not called.
C28_TermsGate ==
    (C28_UnacceptedUser /\ ~C28_Exempt) => ~Called("handler")

C28_Witness ==
    /\ C28_UnacceptedUser
    /\ ~C28_Exempt
    /\ at = "returned"
    /\ update.kind = "message" /\ Truthy(update.text)
    /\ ~Called("handler")
    /\ Called("message.answer")


\* ---------------------------------------------------------------- C29
NotificationCalls ==
    {"message.answer", "callback_query.answer", "message.edit_text",
     "bot.send_message"}

C29_LookupRaised ==
    \E j \in 1..Len(effects) :
        effects[j].call = "get_user_by_id" /\ effects[j].outcome # "ok"

C29_NotificationRaised ==
    \E j \in 1..Len(effects) :
        effects[j].call \in NotificationCalls /\ effects[j].outcome # "ok"

\* once the lookup has raised and the middleware has returned, the handler
\* has been called, whatever terms_accepted is stored for the user
C29_FailOpen ==
    (at = "returned" /\ C29_LookupRaised) => Called("handler")

\* a found user with terms_accepted false whose notification raised never
\* gets the handler called
C29_FailClosed ==
    (update.kind # "none" /\ update.lookup = "found" /\ ~update.terms_accepted
        /\ C29_NotificationRaised)
    => ~Called("handler")

\* C29: the terms gate fails open on lookup errors and fails closed on
\* notification errors: if fetching the user raises, the downstream handler
\* is invoked regardless of the user's terms_accepted value; if the user is
\* found with terms_accepted false and sending the notification raises, the
\* handler is still not invoked.
C29_FailOpenFailClosed == C29_FailOpen /\ C29_FailClosed

C29_Witness ==
    /\ at = "returned"
    /\ C29_LookupRaised
    /\ ~update.terms_accepted
    /\ Called("handler")

C29_WitnessClosed ==
    /\ at = "returned"
    /\ update.lookup = "found" /\ ~update.terms_accepted
    /\ \E j \in 1..Len(effects) :
          effects[j].call = "bot.send_message" /\ effects[j].outcome # "ok"
    /\ Called("message.edit_text")
    /\ ~Called("handler")


\* ---------------------------------------------------------------- C30
Sent(key) ==
    \E j \in 1..Len(effects) :
        effects[j].call = "message.answer" /\ effects[j].arg = key

C30_ChannelCheck(j, result) ==
    /\ effects[j].call = "ensure_required_channel_subscription"
    /\ effects[j].outcome = result

\* the terms prompt comes only after the channel check has returned True
C30_ChannelBeforeTerms ==
    \A j \in 1..Len(effects) :
        (effects[j].call = "message.answer"
            /\ effects[j].arg = "terms_acceptance_required")
        => \E k \in 1..(j - 1) : C30_ChannelCheck(k, "True")

\* with terms_accepted false nothing but one terms prompt follows the channel
\* check: no welcome, no promo code applied, no main menu
C30_OnlyTermsPrompt ==
    ~update.terms_accepted =>
        /\ ~Sent("welcome")
        /\ ~Called("apply_promo_code")
        /\ ~Called("send_main_menu")
        /\ \A k \in 1..Len(effects) :
              C30_ChannelCheck(k, "True") =>
                  /\ Len(effects) <= k + 1
                  /\ Len(effects) = k + 1 =>
                        /\ effects[k + 1].call = "message.answer"
                        /\ effects[k + 1].arg = "terms_acceptance_required"
        /\ (at = "returned" /\ \E k \in 1..Len(effects) : C30_ChannelCheck(k, "True"))
              => Sent("terms_acceptance_required")
        /\ (\E k \in 1..Len(effects) : C30_ChannelCheck(k, "True"))
              => \A j \in 1..Len(effects) :
                    effects[j].call = "message.answer"
                        => effects[j].arg = "terms_acceptance_required"

\* a channel check that returned False is followed by nothing
C30_ChannelFalseEnds ==
    \A k \in 1..Len(effects) :
        C30_ChannelCheck(k, "False") =>
            /\ k = Len(effects)
            /\ at = "returned"
            /\ ~Sent("terms_acceptance_required")

\* C30: the /start handler gates in a fixed order: the required channel
\* subscription is checked before terms acceptance; for a user whose
\* terms_accepted is false only the terms prompt is sent, never the welcome
\* message, never a promo code auto-applied, never the main menu; when the
\* channel check returns False no terms prompt is sent either.
C30_FixedGateOrder ==
    update.kind = "start" =>
        /\ C30_ChannelBeforeTerms
        /\ C30_OnlyTermsPrompt
        /\ C30_ChannelFalseEnds

C30_Witness ==
    /\ update.kind = "start"
    /\ ~update.terms_accepted
    /\ update.param = "promo"
    /\ ~update.DISABLE_WELCOME_MESSAGE
    /\ at = "returned"
    /\ Called("bot.get_chat_member")
    /\ \E k \in 1..Len(effects) : C30_ChannelCheck(k, "True")
    /\ Sent("terms_acceptance_required")

C30_WitnessChannelFalse ==
    /\ update.kind = "start"
    /\ ~update.terms_accepted
    /\ at = "returned"
    /\ Sent("channel_subscription_required")
    /\ ~Sent("terms_acceptance_required")


\* ---------------------------------------------------------------- C32
Id0002 == "0002_add_referral_code"

\* connection p has executed every statement of the upgrade body of id i
BodyCompleted(p, i) ==
    pc[p] = "Upgrading" /\ Current(p).id = i /\ statements[p] = << >>

\* the rows connection p saw when the savepoint of the body was opened
RowsBefore(p) == Merge(store, tx[p]).rows

C32_NullOrEmpty(c) == c.isNone \/ Len(c.chars) = 0

\* invoking the body of descriptor p is at once more, on what p sees now,
\* raises nothing and writes no row
SecondInvocationChangesNoRow(p) ==
    LET again == Upgrade(Current(p), Visible(p).columns)
    IN  \A j \in 1..Len(again) :
            \A w \in RowWrites(p, again[j]) :
                /\ ErrorOf(p, again[j], w) = "None"
                /\ Override(Visible(p).rows, w) = Visible(p).rows

C32_AfterBody ==
    BodyCompleted(P1, Id0002) =>
        /\ \A u \in DOMAIN Visible(P1).rows : ~C32_NullOrEmpty(Visible(P1).rows[u])
        /\ DOMAIN Visible(P1).rows = DOMAIN RowsBefore(P1)
        /\ \A u \in DOMAIN RowsBefore(P1) :
              ~C32_NullOrEmpty(RowsBefore(P1)[u])
                  => Visible(P1).rows[u] = RowsBefore(P1)[u]
        /\ "referral_code" \in Visible(P1).columns
        /\ Visible(P1).index
        /\ SecondInvocationChangesNoRow(P1)

\* the body invoked on rows that all had a code (as a completed body leaves
\* them) writes no row, in none of its steps
C32_RerunStep ==
    [][(pc[P1] = "Upgrading" /\ Current(P1).id = Id0002
          /\ \A u \in DOMAIN RowsBefore(P1) : ~C32_NullOrEmpty(RowsBefore(P1)[u]))
       => Visible(P1).rows' = Visible(P1).rows]_vars

\* C32: after the upgrade body of 0002_add_referral_code completes, no users
\* row has a NULL or empty referral_code, every row that had a non-empty
\* referral_code before keeps its value, and the referral_code column and
\* the unique index uq_users_referral_code exist; running the body a second
\* time changes no row.
C32_BackfillComplete == []C32_AfterBody /\ C32_RerunStep

C32_Witness ==
    /\ BodyCompleted(P1, Id0002)
    /\ \E u, v \in Users :
          /\ RowsBefore(P1)[u] = Varchar(<< >>)
          /\ RowsBefore(P1)[v] = Varchar(<< "a", "b", "c" >>)
          /\ Visible(P1).rows[u] \in GeneratedCodes
    /\ ~store.index

\* the body is invoked on a store where everything it creates is there
C32_WitnessRerun ==
    /\ BodyCompleted(P1, Id0002)
    /\ seed.index
    /\ \A u \in Users : ~C32_NullOrEmpty(seed.rows[u])
    /\ executed[P1] >= 2


\* ---------------------------------------------------------------- C33
Id0003 == "0003_normalize_referral_codes"

C33_IsUppercase(c) ==
    \A j \in 1..Len(c.chars) : c.chars[j] \notin {"a", "b", "c", "d", "e", "f"}

C33_NoColumn == "referral_code" \notin Visible(P1).columns

\* after the body every code is uppercase, no other row was touched, and a
\* second invocation writes nothing
C33_AfterBody ==
    BodyCompleted(P1, Id0003) =>
        /\ \A u \in DOMAIN Visible(P1).rows :
              /\ ~Visible(P1).rows[u].isNone => C33_IsUppercase(Visible(P1).rows[u])
              /\ Visible(P1).rows[u].isNone = RowsBefore(P1)[u].isNone
              /\ C33_IsUppercase(RowsBefore(P1)[u])
                    => Visible(P1).rows[u] = RowsBefore(P1)[u]
        /\ SecondInvocationChangesNoRow(P1)
        /\ C33_NoColumn => sp[P1] = NoChanges

\* without the column the body decides on no statement
C33_NoColumnNoStatement ==
    [][(pc[P1] = "Applying" /\ Current(P1).id = Id0003 /\ C33_NoColumn
          /\ pc'[P1] = "Upgrading")
       => (statements'[P1] = << >> /\ executed'[P1] = executed[P1])]_vars

\* and the step of the run that follows the body records 0003
C33_StillRecorded ==
    [][(BodyCompleted(P1, Id0003) /\ C33_NoColumn /\ pc'[P1] # "Upgrading"
          /\ pc'[P1] # "Crashed")
       => (pc'[P1] = "Recorded" /\ Id0003 \in History(P1)'
           /\ executed'[P1] = executed[P1])]_vars

\* C33: the upgrade body of 0003_normalize_referral_codes is idempotent:
\* after it every non-NULL referral_code equals its uppercase form and a
\* second invocation changes no row; when users has no referral_code column
\* it executes no statement, and the runner still records 0003 as applied.
C33_NormalizeIdempotent ==
    []C33_AfterBody /\ C33_NoColumnNoStatement /\ C33_StillRecorded

C33_Witness ==
    /\ BodyCompleted(P1, Id0003)
    /\ \E u \in Users :
          /\ RowsBefore(P1)[u] = Varchar(<< "a", "b", "c" >>)
          /\ Visible(P1).rows[u] = Varchar(<< "A", "B", "C" >>)

C33_WitnessNoColumn ==
    /\ pc[P1] = "Recorded"
    /\ Current(P1).id = Id0003
    /\ C33_NoColumn
    /\ Id0003 \in History(P1)


\* ---------------------------------------------------------------- C31
C31_Returned(result) ==
    \E j \in 1..Len(effects) :
        /\ effects[j].call = "ensure_required_channel_subscription"
        /\ effects[j].outcome = result

\* the membership query was made and returned a status
C31_Status(status) ==
    \E j \in 1..Len(effects) :
        /\ effects[j].call = "bot.get_chat_member"
        /\ effects[j].outcome = status
        /\ status \in {"creator", "administrator", "member", "restricted", "left",
                       "kicked"}

C31_Member(status) == status \in {"creator", "administrator", "member", "restricted"}

C31_Stored(o) ==
    \E j \in 1..Len(effects) :
        /\ effects[j].call = "update_user"
        /\ effects[j].arg = "channel_subscription_verified"
        /\ effects[j].outcome = o

C31_VerifiedForCurrent ==
    /\ user_row.channel_subscription_verified
    /\ user_row.channel_subscription_verified_for = update.REQUIRED_CHANNEL_ID

\* the call is one the cache applies to: a channel is configured, the bot is
\* there, the user is no administrator and has a row
C31_Checked ==
    /\ update.REQUIRED_CHANNEL_ID # NoChannel
    /\ update.has_bot
    /\ update.event_from_user \notin ADMIN_IDS
    /\ (update.passed = "db_user" \/ update.fetch = "found")

\* C31 as stated: True is returned without a query to Telegram only when the
\* stored flag is true and stored for the configured channel, and after a
\* query that returned a status the stored flag is the membership result for
\* the configured channel.
C31_CachedPerChannel ==
    update.kind = "channel_check" =>
        /\ (C31_Returned("True") /\ ~Called("bot.get_chat_member"))
              => C31_VerifiedForCurrent
        /\ \A status \in ChatMemberOutcomes :
              (C31_Status(status) /\ at \in {"returned", "raised"})
              => /\ user_row.channel_subscription_verified = C31_Member(status)
                 /\ user_row.channel_subscription_verified_for
                       = update.REQUIRED_CHANNEL_ID

\* C31, amended: for a user with a row who is no administrator, with a
\* channel configured and the bot present, True is returned without a query
\* to Telegram only when the stored flag is true and stored for the
\* configured channel, so a verification stored for another channel is never
\* reused; after a query that returned a status the row holds the membership
\* result for the configured channel if update_user succeeded, and if it
\* raised the row still holds no verification for the configured channel.
C31_CachedPerChannelWhenChecked ==
    update.kind = "channel_check" =>
        /\ (C31_Checked /\ C31_Returned("True") /\ ~Called("bot.get_chat_member"))
              => C31_VerifiedForCurrent
        /\ (~C31_Checked /\ C31_Returned("True")) => ~Called("bot.get_chat_member")
        /\ \A status \in ChatMemberOutcomes :
              (C31_Status(status) /\ at \in {"returned", "raised"})
              => /\ C31_Stored("ok") =>
                       /\ user_row.channel_subscription_verified = C31_Member(status)
                       /\ user_row.channel_subscription_verified_for
                             = update.REQUIRED_CHANNEL_ID
                 /\ C31_Stored("Exception") => ~C31_VerifiedForCurrent
                 /\ C31_Stored("ok") \/ C31_Stored("Exception")
                 /\ C31_Returned("True") => C31_Member(status)

\* a row verified for another channel: the query is made again
C31_Witness ==
    /\ update.kind = "channel_check"
    /\ at = "returned"
    /\ C31_Status("left")
    /\ C31_Stored("Exception")
    /\ user_row.channel_subscription_verified
    /\ user_row.channel_subscription_verified_for \in ChannelIds
    /\ user_row.channel_subscription_verified_for # update.REQUIRED_CHANNEL_ID
    /\ C31_Returned("False")

C31_WitnessCached ==
    /\ update.kind = "channel_check"
    /\ C31_Checked
    /\ C31_Returned("True")
    /\ ~Called("bot.get_chat_member")
    /\ C31_VerifiedForCurrent

====
